---- MODULE Spec2Model ----
(***************************************************************************)
(* A model of the sign-language chat: the LetterAccumulator of             *)
(* recognizer.py and recognizer_mediapipe.py, the sentence assembler of    *)
(* listen_for_sentence, the TurnProtocol state machine of protocol.py and  *)
(* the two orchestrators (main.py, chat_claude_to_claude.py).              *)
(***************************************************************************)
EXTENDS Integers, Sequences, FiniteSets, TLC

\* Python's None, and None where the code holds a time.
None == "None"
NoTime == -1

(***************************************************************************)
(* Bounds of the model.                                                    *)
(***************************************************************************)
\* Largest required_frames / max_gap a LetterAccumulator is constructed with.
MaxRequiredFrames == 8
MaxMaxGap == 3
\* The gap counter of the accumulator is unbounded in the code; absent inputs
\* are fed only while it is below this bound.
MaxGapCount == 5

\* Symbols the classifier harness feeds to a bare accumulator.
AccLetters == {"A", "B"}

\* Longest same-symbol run the harness keeps track of (present inputs), and
\* the most absent inputs it tolerates inside one.
MaxRun == 2 * MaxRequiredFrames + 1
MaxRunNones == 3
\* The clock of the TurnProtocol harness stops here (tenths of a second).
MaxClock == 24
\* The texts the peer signs to listen_for_sentence and to the test tool: on
\* every classifier tick the classifier reports the letter being signed or
\* nothing.
SignTexts == {<<"H", "E", "L", "L", "O">>}
ToolTexts == {<<"L", "O", "L">>}
\* The most symbols the recognizer confirms in one run (the length of
\* word_buffer), the most hand-absent gaps of SPACE_GAP_FRAMES ticks in one
\* run, and the longest hand-absent gap in classifier ticks.
MaxWord == 5
MaxLongGaps == 2
MaxNoHand == 9
\* One process and what is in front of its camera: the last clock tick, the
\* most frame reads that fail, the most presses of Q/ESC, and the programmes
\* of the screen in front of the camera: from which tick on it shows which
\* border and which hand sign.
MaxSessClock == 80
MaxReadFails == 2
MaxKeys == 2
SessScreens ==
    << << <<30, "green", "A">>, <<50, "green", "None">> >>,
       << <<30, "cyan", "None">>, <<32, "green", "A">>, <<52, "red", "None">>,
          <<56, "cyan", "None">> >>,
       << <<30, "red", "None">> >>,
       << <<30, "green", "A">>, <<86, "red", "A">> >> >>
\* ask_claude: the characters the claude CLI prints ("h" and "I" are letters
\* of config.LETTERS in lower and upper case, "J" is a letter outside it), the
\* most characters it prints, and how long it runs (tenths of a second).
AskChars == {"h", "I", "J", " ", "\n", "!"}
MaxOut == 4
AskRuntimes == {5, 300, 301}
\* detect_border_color: the shares of the border pixels that match a colour,
\* in percent.
Ratios == {0, 10, 29, 30, 31, 35, 40, 60, 100}
\* chat_live.py: the most responses the responder writes, and the texts it
\* writes ("J" is not a letter of config.LETTERS).
MaxResponses == 2
LiveTexts == {<<"h", "i", "\n">>, <<"J">>}
\* The recognizers: the letters the classifier reports and the most letters
\* in word_buffer.
RecLetters == {"A", "B"}
MaxRecWord == 2
\* The chat of two agents: the last clock tick (tenths of a second), the most
\* rounds an agent is started with (--rounds), the longest an ask_claude call
\* takes in ticks, and the texts ask_claude answers with.
MaxChatClock == 100
MaxRounds == 2
MaxAskTime == 1
ChatTexts == {<<"H", "I">>, <<"A", " ", "B">>}

(***************************************************************************)
(* config.py                                                               *)
(***************************************************************************)
ACCUMULATION_FRAMES == 8
MAX_GAP_FRAMES == 3
\* Durations are in tenths of a second.
LETTER_DISPLAY_TIME == 20
LETTER_PAUSE_TIME == 5

(***************************************************************************)
(* chat_claude_to_claude.py, tools/test_recognizer_mediapipe.py            *)
(***************************************************************************)
\* Frames with no hand detected before inserting a space
SPACE_GAP_FRAMES == 8
\* chat_claude_to_claude.py: seconds between detections, and silence after the
\* last letter that ends a sentence; the waits of speak_text between words
\* and on the full text, of signal_done, and of main on "GOT: ...".
DETECT_INTERVAL == 2
SENTENCE_DONE_TIMEOUT == 30
WORD_PAUSE_TIME == 10
FULL_TEXT_TIME == 10
RED_TIME == 20
GOT_TIME == 15
\* config.BORDER_COLOR_MIN_RATIO = 0.3, in percent
BORDER_COLOR_MIN_RATIO == 30
\* subprocess.run(..., timeout=30)
ASK_TIMEOUT == 300
\* main.py: time.sleep(0.5) on the whole word, time.sleep(1.5) on "GOT: ..."
WORD_SHOWN_TIME == 5
GOT_SLEEP_TIME == 15

VARIABLES
    accumulator,     \* recognizer.py LetterAccumulator: the object's fields
    mp_accumulator,  \* recognizer_mediapipe.py LetterAccumulator
    acc_op,          \* harness: the last call, "init" | "update" | "reset"
    acc_in,          \* harness: the argument of the last update
    acc_out,         \* harness: what the last update returned (recognizer.py)
    mp_out,          \* harness: what the last update returned (mediapipe)
    acc_prev,        \* harness: recognizer.py accumulator before the last call
    mp_prev,         \* harness: mediapipe accumulator before the last call
    none_run,        \* harness: consecutive absent inputs ending at the last call
    run_ok,          \* harness: since the reset state every present input was the
                     \*   same symbol and no run of absent inputs exceeded max_gap
    run_sym,         \* harness: that symbol (None before the first present input)
    run_len,         \* harness: the number of present inputs since the reset state
    run_nones,       \* harness: the number of absent inputs since the reset state
    run_maxgap       \* harness: the longest run of absent inputs since the reset state

accVars == <<accumulator, mp_accumulator, acc_op, acc_in, acc_out, mp_out,
             acc_prev, mp_prev, none_run, run_ok, run_sym, run_len, run_nones,
             run_maxgap>>

VARIABLES
    tp_state,        \* protocol.py TurnProtocol.state
    tp_done_time,    \* TurnProtocol._done_time
    now,             \* time.time(), in tenths of a second
    tp_op,           \* harness: the last call on the protocol object
    tp_sig,          \* harness: the detected_border_color of that call
    tp_event,        \* harness: what the last update returned
    tp_at,           \* harness: the time of the last call
    tp_prev,         \* harness: the state before the last call
    tp_green,        \* harness: GREEN was seen in the current listening period
    tp_prev_green    \* harness: tp_green before the last call

tpVars == <<tp_state, tp_done_time, now, tp_op, tp_sig, tp_event, tp_at,
            tp_prev, tp_green, tp_prev_green>>

VARIABLES
    asm_prog,        \* which loop runs: "listen_for_sentence" (chat_claude_to_claude.py)
                     \*   or "test_tool" (tools/test_recognizer_mediapipe.py)
    recognizer,      \* MediaPipeRecognizer: [accumulator, word_buffer]
    sentence,        \* the local list `sentence`
    no_hand_frames,  \* the local `no_hand_frames`
    space_inserted,  \* the local `space_inserted`
    signing,         \* environment: the letters the peer signs, in order
    sign_pos,        \* environment: the one it is signing (0: none yet)
    asm_op,          \* harness: the last step, "init" | "detect" | "clear" | "backspace"
    asm_best,        \* harness: the classifier's best letter on the last detect
    asm_confirmed,   \* harness: what process_frame confirmed on the last detect
    asm_prev,        \* harness: `sentence` before the last step
    events,          \* harness: since the start or the last clear, every confirmed
                     \*   symbol and a " " for every hand-absent gap that reached
                     \*   SPACE_GAP_FRAMES classifier ticks, in order
    events_ok        \* harness: no backspace edited the sentence since then

asmVars == <<asm_prog, recognizer, sentence, no_hand_frames, space_inserted,
             signing, sign_pos, asm_op, asm_best, asm_confirmed, asm_prev, events, events_ok>>

\* chat_claude_to_claude.py: two processes, each facing the other's screen
VARIABLES
    agents,          \* role -> the state of that process: main's `speaking`,
                     \*   `rounds`, `history`; where it is (phase) and since
                     \*   when (start); speak_text's text and position; what
                     \*   its screen shows (color, glyph); listen_for_sentence's
                     \*   locals and its recognizer; the time of its last
                     \*   camera frame and what that frame led to (event)
    cnow             \* time.time(), in tenths of a second

chatVars == <<agents, cnow>>

\* recognizer.py, recognizer_mediapipe.py: an ASLRecognizer and a
\* MediaPipeRecognizer given the same classifier results and the same calls
VARIABLES
    rec,             \* the ASLRecognizer: its accumulator and word_buffer
    mp_rec,          \* the MediaPipeRecognizer: its accumulator and word_buffer
    rec_op,          \* harness: the last call, "init" | "process_frame" |
                     \*   "get_word" | "clear"
    rec_prev_op,     \* harness: the call before it
    rec_ret,         \* harness: what the last call returned on the ASLRecognizer
    rec_prev_ret,    \* harness: what the call before it returned on it
    mp_rec_ret,      \* harness: ... on the MediaPipeRecognizer
    rec_before,      \* harness: the ASLRecognizer before the last call
    mp_rec_before    \* harness: the MediaPipeRecognizer before the last call

recVars == <<rec, mp_rec, rec_op, rec_prev_op, rec_ret, rec_prev_ret, mp_rec_ret,
             rec_before, mp_rec_before>>

\* chat_claude_to_claude.py, main.py: one process of either program, the
\* screen in front of its camera, its camera and its keyboard being free
VARIABLES
    sess,            \* the process: which program it is (prog), the state of
                     \*   its main loop and of the function it is in, its
                     \*   screen, how often it released the camera and closed
                     \*   the display, and the history it reported
    snow,            \* time.time(), in tenths of a second
    senv,            \* environment: which programme of SessScreens runs in
                     \*   front of the camera (screen), how many frame reads
                     \*   failed (fails) and how often Q/ESC was pressed (keys)
    sess_step        \* harness: the last step: what it was (op), the process
                     \*   before it (prev), whether a cancel key was pressed
                     \*   during it (key), whether its code looked at the key
                     \*   (checked) and whether the frame read succeeded (ok)

sessVars == <<sess, snow, senv, sess_step>>

\* The functions that keep no state between calls (ask_claude,
\* detect_border_color)
VARIABLES
    fn_op,           \* harness: the function that was called last
    fn_in,           \* harness: what it was called with
    fn_out           \* harness: what it returned, and how long it took

fnVars == <<fn_op, fn_in, fn_out>>

\* chat_live.py and the responder that answers it through files in /tmp
VARIABLES
    live,            \* the chat process: where it is (pc), who called
                     \*   wait_for_response (caller), its local `response`,
                     \*   what it has displayed, and /tmp/asl_input
    response_file,   \* /tmp/asl_response: whether it exists, the number of
                     \*   the response in it and its text
    live_log         \* harness: how many responses the responder has written,
                     \*   the numbers of those the chat process has read, and
                     \*   the removals of a response it had not read

liveVars == <<live, response_file, live_log>>

vars == <<accVars, tpVars, asmVars, chatVars, recVars, sessVars, fnVars,
          liveVars>>

\* What the steps of one component leave alone.
accRest == <<tpVars, asmVars, chatVars, recVars, sessVars, fnVars, liveVars>>
tpRest == <<accVars, asmVars, chatVars, recVars, sessVars, fnVars, liveVars>>
asmRest == <<accVars, tpVars, chatVars, recVars, sessVars, fnVars, liveVars>>
chatRest == <<accVars, tpVars, asmVars, recVars, sessVars, fnVars, liveVars>>
recRest == <<accVars, tpVars, asmVars, chatVars, sessVars, fnVars, liveVars>>
sessRest == <<accVars, tpVars, asmVars, chatVars, recVars, fnVars, liveVars>>
fnRest == <<accVars, tpVars, asmVars, chatVars, recVars, sessVars, liveVars>>
liveRest == <<accVars, tpVars, asmVars, chatVars, recVars, sessVars, fnVars>>

\* The variables of a component that a specification does not run.
AccOff ==
    /\ accumulator = None /\ mp_accumulator = None
    /\ acc_op = None /\ acc_in = None /\ acc_out = None /\ mp_out = None
    /\ acc_prev = None /\ mp_prev = None
    /\ none_run = 0 /\ run_ok = FALSE /\ run_sym = None
    /\ run_len = 0 /\ run_nones = 0 /\ run_maxgap = 0

AsmOff ==
    /\ asm_prog = None /\ recognizer = None /\ sentence = <<>>
    /\ no_hand_frames = 0 /\ space_inserted = FALSE
    /\ signing = <<>> /\ sign_pos = 0
    /\ asm_op = None /\ asm_best = None /\ asm_confirmed = None
    /\ asm_prev = <<>> /\ events = <<>> /\ events_ok = FALSE

TPOff ==
    /\ tp_state = None /\ tp_done_time = NoTime /\ now = 0
    /\ tp_op = None /\ tp_sig = None /\ tp_event = None /\ tp_at = 0
    /\ tp_prev = None /\ tp_green = FALSE /\ tp_prev_green = FALSE

ChatOff == agents = None /\ cnow = 0

RecOff ==
    /\ rec = None /\ mp_rec = None /\ rec_op = None /\ rec_prev_op = None
    /\ rec_ret = None /\ rec_prev_ret = None /\ mp_rec_ret = None
    /\ rec_before = None /\ mp_rec_before = None

SessOff == sess = None /\ snow = 0 /\ senv = None /\ sess_step = None

FnOff == fn_op = None /\ fn_in = None /\ fn_out = None

LiveOff == live = None /\ response_file = None /\ live_log = None

AccRestOff == TPOff /\ AsmOff /\ ChatOff /\ RecOff /\ SessOff /\ FnOff /\ LiveOff
TPRestOff == AccOff /\ AsmOff /\ ChatOff /\ RecOff /\ SessOff /\ FnOff /\ LiveOff
AsmRestOff == AccOff /\ TPOff /\ ChatOff /\ RecOff /\ SessOff /\ FnOff /\ LiveOff
ChatRestOff == AccOff /\ TPOff /\ AsmOff /\ RecOff /\ SessOff /\ FnOff /\ LiveOff
RecRestOff == AccOff /\ TPOff /\ AsmOff /\ ChatOff /\ SessOff /\ FnOff /\ LiveOff
SessRestOff == AccOff /\ TPOff /\ AsmOff /\ ChatOff /\ RecOff /\ FnOff /\ LiveOff
FnRestOff == AccOff /\ TPOff /\ AsmOff /\ ChatOff /\ RecOff /\ SessOff /\ LiveOff
LiveRestOff ==
    AccOff /\ TPOff /\ AsmOff /\ ChatOff /\ RecOff /\ SessOff /\ FnOff

(***************************************************************************)
(* recognizer.py: class LetterAccumulator                                  *)
(***************************************************************************)
LetterAccumulator_init(required_frames, max_gap) ==
    [required_frames |-> required_frames,
     max_gap |-> max_gap,
     current_letter |-> None,
     count |-> 0,
     gap |-> 0,
     confirmed_letter |-> None]

\* update() that does not clear the count and the candidate on a confirmation.
LetterAccumulator_update_noClear(self, detected_letter) ==
    LET s0 == [self EXCEPT !.confirmed_letter = None] IN
    IF detected_letter = None
    THEN LET s1 == [s0 EXCEPT !.gap = @ + 1] IN
         [self |-> IF s1.gap > s1.max_gap
                   THEN [s1 EXCEPT !.current_letter = None, !.count = 0]
                   ELSE s1,
          ret |-> None]
    ELSE LET s1 == [s0 EXCEPT !.gap = 0]
             s2 == IF detected_letter = s1.current_letter
                   THEN [s1 EXCEPT !.count = @ + 1]
                   ELSE [s1 EXCEPT !.current_letter = detected_letter, !.count = 1]
         IN IF s2.count >= s2.required_frames
            THEN [self |-> [s2 EXCEPT !.confirmed_letter = s2.current_letter],
                  ret |-> s2.current_letter]
            ELSE [self |-> s2, ret |-> None]

\* update(detected_letter): the object after the call and the value returned.
LetterAccumulator_update(self, detected_letter) ==
    LET s0 == [self EXCEPT !.confirmed_letter = None] IN
    IF detected_letter = None
    THEN LET s1 == [s0 EXCEPT !.gap = @ + 1] IN
         [self |-> IF s1.gap > s1.max_gap
                   THEN [s1 EXCEPT !.current_letter = None, !.count = 0]
                   ELSE s1,
          ret |-> None]
    ELSE LET s1 == [s0 EXCEPT !.gap = 0]
             s2 == IF detected_letter = s1.current_letter
                   THEN [s1 EXCEPT !.count = @ + 1]
                   ELSE [s1 EXCEPT !.current_letter = detected_letter, !.count = 1]
         IN IF s2.count >= s2.required_frames
            THEN [self |-> [s2 EXCEPT !.confirmed_letter = s2.current_letter,
                                      !.count = 0,
                                      !.current_letter = None],
                  ret |-> s2.current_letter]
            ELSE [self |-> s2, ret |-> None]

\* reset() that leaves the match count as it is.
LetterAccumulator_reset_keepsCount(self) ==
    [self EXCEPT !.current_letter = None, !.gap = 0, !.confirmed_letter = None]

LetterAccumulator_reset(self) ==
    [self EXCEPT !.current_letter = None, !.count = 0, !.gap = 0,
                 !.confirmed_letter = None]

(***************************************************************************)
(* recognizer_mediapipe.py: class LetterAccumulator                        *)
(***************************************************************************)
MP_LetterAccumulator_init(required_frames, max_gap) ==
    [required_frames |-> required_frames,
     max_gap |-> max_gap,
     current_letter |-> None,
     count |-> 0,
     gap |-> 0]

\* update() that keeps the run however long the gap is.
MP_LetterAccumulator_update_keepsRun(self, detected_letter) ==
    IF detected_letter = None
    THEN [self |-> [self EXCEPT !.gap = @ + 1], ret |-> None]
    ELSE LET s1 == [self EXCEPT !.gap = 0]
             s2 == IF detected_letter = s1.current_letter
                   THEN [s1 EXCEPT !.count = @ + 1]
                   ELSE [s1 EXCEPT !.current_letter = detected_letter, !.count = 1]
         IN IF s2.count >= s2.required_frames
            THEN [self |-> [s2 EXCEPT !.count = 0, !.current_letter = None],
                  ret |-> s2.current_letter]
            ELSE [self |-> s2, ret |-> None]

\* update() that abandons the run already when the gap reaches max_gap.
MP_LetterAccumulator_update_gapOffByOne(self, detected_letter) ==
    IF detected_letter = None
    THEN LET s1 == [self EXCEPT !.gap = @ + 1] IN
         [self |-> IF s1.gap >= s1.max_gap
                   THEN [s1 EXCEPT !.current_letter = None, !.count = 0]
                   ELSE s1,
          ret |-> None]
    ELSE LET s1 == [self EXCEPT !.gap = 0]
             s2 == IF detected_letter = s1.current_letter
                   THEN [s1 EXCEPT !.count = @ + 1]
                   ELSE [s1 EXCEPT !.current_letter = detected_letter, !.count = 1]
         IN IF s2.count >= s2.required_frames
            THEN [self |-> [s2 EXCEPT !.count = 0, !.current_letter = None],
                  ret |-> s2.current_letter]
            ELSE [self |-> s2, ret |-> None]

\* update() that starts a replaced candidate at count 0 and keeps the gap.
MP_LetterAccumulator_update_countZero(self, detected_letter) ==
    IF detected_letter = None
    THEN LET s1 == [self EXCEPT !.gap = @ + 1] IN
         [self |-> IF s1.gap > s1.max_gap
                   THEN [s1 EXCEPT !.current_letter = None, !.count = 0]
                   ELSE s1,
          ret |-> None]
    ELSE LET s2 == IF detected_letter = self.current_letter
                   THEN [self EXCEPT !.count = @ + 1]
                   ELSE [self EXCEPT !.current_letter = detected_letter, !.count = 0]
         IN IF s2.count >= s2.required_frames
            THEN [self |-> [s2 EXCEPT !.count = 0, !.current_letter = None],
                  ret |-> s2.current_letter]
            ELSE [self |-> s2, ret |-> None]

MP_LetterAccumulator_update(self, detected_letter) ==
    IF detected_letter = None
    THEN LET s1 == [self EXCEPT !.gap = @ + 1] IN
         [self |-> IF s1.gap > s1.max_gap
                   THEN [s1 EXCEPT !.current_letter = None, !.count = 0]
                   ELSE s1,
          ret |-> None]
    ELSE LET s1 == [self EXCEPT !.gap = 0]
             s2 == IF detected_letter = s1.current_letter
                   THEN [s1 EXCEPT !.count = @ + 1]
                   ELSE [s1 EXCEPT !.current_letter = detected_letter, !.count = 1]
         IN IF s2.count >= s2.required_frames
            THEN [self |-> [s2 EXCEPT !.count = 0, !.current_letter = None],
                  ret |-> s2.current_letter]
            ELSE [self |-> s2, ret |-> None]

\* reset() that leaves the gap counter as it is.
MP_LetterAccumulator_reset_keepsGap(self) ==
    [self EXCEPT !.current_letter = None, !.count = 0]

MP_LetterAccumulator_reset(self) ==
    [self EXCEPT !.current_letter = None, !.count = 0, !.gap = 0]

(***************************************************************************)
(* The accumulator harness: both accumulators are constructed with the     *)
(* same parameters and fed the same calls.                                 *)
(***************************************************************************)
AccInit ==
    /\ \E n \in 1..MaxRequiredFrames, g \in 0..MaxMaxGap :
          /\ accumulator = LetterAccumulator_init(n, g)
          /\ mp_accumulator = MP_LetterAccumulator_init(n, g)
    /\ acc_op = "init"
    /\ acc_in = None
    /\ acc_out = None
    /\ mp_out = None
    /\ acc_prev = accumulator
    /\ mp_prev = mp_accumulator
    /\ none_run = 0
    /\ run_ok = TRUE
    /\ run_sym = None
    /\ run_len = 0
    /\ run_nones = 0
    /\ run_maxgap = 0
    /\ AccRestOff

AccUpdate ==
    \E d \in AccLetters \cup {None} :
        /\ d = None => accumulator.gap < MaxGapCount
        /\ LET r == LetterAccumulator_update(accumulator, d)
               m == MP_LetterAccumulator_update(mp_accumulator, d)
           IN /\ accumulator' = r.self
              /\ acc_out' = r.ret
              /\ mp_accumulator' = m.self
              /\ mp_out' = m.ret
        /\ acc_op' = "update"
        /\ acc_in' = d
        /\ acc_prev' = accumulator
        /\ mp_prev' = mp_accumulator
        /\ UNCHANGED accRest
        /\ none_run' = IF d = None THEN none_run + 1 ELSE 0
        \* a tracked run starts at the reset state and lasts while the same
        \* symbol is fed and every gap is tolerated; tracking stops at MaxRun
        \* present or MaxRunNones absent inputs
        /\ LET keep == /\ run_ok
                       /\ IF d = None
                          THEN none_run + 1 <= accumulator.max_gap
                               /\ run_nones < MaxRunNones
                          ELSE (run_len = 0 \/ d = run_sym) /\ run_len < MaxRun
           IN IF keep
              THEN /\ run_ok' = TRUE
                   /\ run_sym' = IF d = None THEN run_sym ELSE d
                   /\ run_len' = IF d = None THEN run_len ELSE run_len + 1
                   /\ run_nones' = IF d = None THEN run_nones + 1 ELSE run_nones
                   /\ run_maxgap' = IF d = None /\ none_run + 1 > run_maxgap
                                    THEN none_run + 1 ELSE run_maxgap
              ELSE /\ run_ok' = FALSE
                   /\ run_sym' = None
                   /\ run_len' = 0
                   /\ run_nones' = 0
                   /\ run_maxgap' = 0

AccReset ==
    /\ acc_op # "reset"
    /\ accumulator' = LetterAccumulator_reset(accumulator)
    /\ mp_accumulator' = MP_LetterAccumulator_reset(mp_accumulator)
    /\ acc_op' = "reset"
    /\ acc_in' = None
    /\ acc_out' = None
    /\ mp_out' = None
    /\ acc_prev' = accumulator
    /\ mp_prev' = mp_accumulator
    /\ none_run' = 0
    /\ run_ok' = TRUE
    /\ run_sym' = None
    /\ run_len' = 0
    /\ run_nones' = 0
    /\ run_maxgap' = 0
    /\ UNCHANGED accRest

AccNext == AccUpdate \/ AccReset

SpecAcc == AccInit /\ [][AccNext]_vars

(***************************************************************************)
(* protocol.py: class State, class TurnProtocol.  Time is counted in       *)
(* tenths of a second.                                                     *)
(***************************************************************************)
IDLE == "idle"
SPEAKING == "speaking"
DONE_SPEAKING == "done"
LISTENING == "listening"
WAITING_FOR_TURN == "waiting"

State == {IDLE, SPEAKING, DONE_SPEAKING, LISTENING, WAITING_FOR_TURN}

\* What detect_border_color returns.
Signals == {"green", "red", "cyan", None}

\* self._done_duration = 2.0
done_duration == 20

\* A constructor that lets the listener wait for its turn.
TurnProtocol_init_waiting(starts_as_speaker) ==
    [state |-> IF starts_as_speaker THEN SPEAKING ELSE WAITING_FOR_TURN,
     done_time |-> NoTime]

TurnProtocol_init(starts_as_speaker) ==
    [state |-> IF starts_as_speaker THEN SPEAKING ELSE LISTENING,
     done_time |-> NoTime]

TurnProtocol_finish_speaking(self, t) ==
    [self EXCEPT !.state = DONE_SPEAKING, !.done_time = t]

\* update() that switches as soon as the red border was shown for
\* done_duration.
TurnProtocol_update_atLeast(self, detected_border_color, t) ==
    IF self.state = DONE_SPEAKING
    THEN IF self.done_time # NoTime /\ self.done_time # 0
            /\ t - self.done_time >= done_duration
         THEN [self |-> [self EXCEPT !.state = LISTENING], ret |-> "done_timeout"]
         ELSE [self |-> self, ret |-> None]
    ELSE IF self.state = LISTENING
    THEN IF detected_border_color = "green"
         THEN [self |-> self, ret |-> "letter_incoming"]
         ELSE IF detected_border_color = "red"
         THEN [self |-> [self EXCEPT !.state = SPEAKING], ret |-> "turn_received"]
         ELSE [self |-> self, ret |-> None]
    ELSE IF self.state = WAITING_FOR_TURN
    THEN IF detected_border_color = "cyan"
         THEN [self |-> [self EXCEPT !.state = SPEAKING], ret |-> "turn_received"]
         ELSE [self |-> self, ret |-> None]
    ELSE [self |-> self, ret |-> None]

\* update() that takes the turn on RED only after a GREEN was seen.
TurnProtocol_update_needsGreen(self, detected_border_color, t) ==
    IF self.state = DONE_SPEAKING
    THEN IF self.done_time # NoTime /\ self.done_time # 0
            /\ t - self.done_time > done_duration
         THEN [self |-> [self EXCEPT !.state = LISTENING], ret |-> "done_timeout"]
         ELSE [self |-> self, ret |-> None]
    ELSE IF self.state = LISTENING
    THEN IF detected_border_color = "green"
         THEN [self |-> self, ret |-> "letter_incoming"]
         ELSE IF detected_border_color = "red" /\ tp_green
         THEN [self |-> [self EXCEPT !.state = SPEAKING], ret |-> "turn_received"]
         ELSE [self |-> self, ret |-> None]
    ELSE IF self.state = WAITING_FOR_TURN
    THEN IF detected_border_color = "cyan"
         THEN [self |-> [self EXCEPT !.state = SPEAKING], ret |-> "turn_received"]
         ELSE [self |-> self, ret |-> None]
    ELSE [self |-> self, ret |-> None]

\* update() that in WAITING_FOR_TURN takes the turn on RED as well as on CYAN.
TurnProtocol_update_waitingOnRed(self, detected_border_color, t) ==
    IF self.state = DONE_SPEAKING
    THEN IF self.done_time # NoTime /\ self.done_time # 0
            /\ t - self.done_time > done_duration
         THEN [self |-> [self EXCEPT !.state = LISTENING], ret |-> "done_timeout"]
         ELSE [self |-> self, ret |-> None]
    ELSE IF self.state = LISTENING
    THEN IF detected_border_color = "green"
         THEN [self |-> self, ret |-> "letter_incoming"]
         ELSE IF detected_border_color = "red"
         THEN [self |-> [self EXCEPT !.state = SPEAKING], ret |-> "turn_received"]
         ELSE [self |-> self, ret |-> None]
    ELSE IF self.state = WAITING_FOR_TURN
    THEN IF detected_border_color \in {"cyan", "red"}
         THEN [self |-> [self EXCEPT !.state = SPEAKING], ret |-> "turn_received"]
         ELSE [self |-> self, ret |-> None]
    ELSE [self |-> self, ret |-> None]

\* update() that in LISTENING falls back to IDLE when no signal is decoded.
TurnProtocol_update_noneResets(self, detected_border_color, t) ==
    IF self.state = DONE_SPEAKING
    THEN IF self.done_time # NoTime /\ self.done_time # 0
            /\ t - self.done_time > done_duration
         THEN [self |-> [self EXCEPT !.state = LISTENING], ret |-> "done_timeout"]
         ELSE [self |-> self, ret |-> None]
    ELSE IF self.state = LISTENING
    THEN IF detected_border_color = "green"
         THEN [self |-> self, ret |-> "letter_incoming"]
         ELSE IF detected_border_color = "red"
         THEN [self |-> [self EXCEPT !.state = SPEAKING], ret |-> "turn_received"]
         ELSE IF detected_border_color = None
              THEN [self |-> [self EXCEPT !.state = IDLE], ret |-> None]
              ELSE [self |-> self, ret |-> None]
    ELSE IF self.state = WAITING_FOR_TURN
    THEN IF detected_border_color = "cyan"
         THEN [self |-> [self EXCEPT !.state = SPEAKING], ret |-> "turn_received"]
         ELSE [self |-> self, ret |-> None]
    ELSE [self |-> self, ret |-> None]

\* update(detected_border_color) at time t: the object after the call and the
\* event returned.  `self._done_time and ...` is false for None and for 0.0.
TurnProtocol_update(self, detected_border_color, t) ==
    IF self.state = DONE_SPEAKING
    THEN IF self.done_time # NoTime /\ self.done_time # 0
            /\ t - self.done_time > done_duration
         THEN [self |-> [self EXCEPT !.state = LISTENING], ret |-> "done_timeout"]
         ELSE [self |-> self, ret |-> None]
    ELSE IF self.state = LISTENING
    THEN IF detected_border_color = "green"
         THEN [self |-> self, ret |-> "letter_incoming"]
         ELSE IF detected_border_color = "red"
         THEN [self |-> [self EXCEPT !.state = SPEAKING], ret |-> "turn_received"]
         ELSE [self |-> self, ret |-> None]
    ELSE IF self.state = WAITING_FOR_TURN
    THEN IF detected_border_color = "cyan"
         THEN [self |-> [self EXCEPT !.state = SPEAKING], ret |-> "turn_received"]
         ELSE [self |-> self, ret |-> None]
    ELSE [self |-> self, ret |-> None]

TurnProtocol_start_speaking(self) == [self EXCEPT !.state = SPEAKING]

TurnProtocol_start_listening(self) == [self EXCEPT !.state = LISTENING]

\* get_border_color that shows the listening colour in every state but
\* SPEAKING and DONE_SPEAKING.
TurnProtocol_get_border_color_cyanElse(self) ==
    CASE self.state = SPEAKING -> "green"
      [] self.state = DONE_SPEAKING -> "red"
      [] OTHER -> "cyan"

\* get_border_color(): the colour returned (COLOR_GREEN, COLOR_RED,
\* COLOR_CYAN, COLOR_GRAY by name); the method assigns nothing.
TurnProtocol_get_border_color(self) ==
    CASE self.state = SPEAKING -> "green"
      [] self.state = DONE_SPEAKING -> "red"
      [] self.state = LISTENING -> "cyan"
      [] OTHER -> "gray"

\* main.py, the listening wait loop on one frame whose border decodes to
\* `border`: RED assigns protocol.state = State.SPEAKING directly.
Main_wait_loop(self, border) ==
    IF border = "red" THEN [self EXCEPT !.state = SPEAKING] ELSE self

(***************************************************************************)
(* The TurnProtocol harness: one protocol object, any sequence of calls at  *)
(* advancing times.                                                        *)
(***************************************************************************)
TPSelf == [state |-> tp_state, done_time |-> tp_done_time]

\* The bookkeeping of a call `op` with signal `sig` that leaves the object as
\* `self2` and returns `ret`.
TPCall(op, sig, self2, ret) ==
    /\ tp_state' = self2.state
    /\ tp_done_time' = self2.done_time
    /\ tp_op' = op
    /\ tp_sig' = sig
    /\ tp_event' = ret
    /\ tp_at' = now
    /\ tp_prev' = tp_state
    /\ tp_prev_green' = tp_green
    /\ tp_green' = IF self2.state = LISTENING /\ tp_state = LISTENING
                   THEN (tp_green \/ sig = "green")
                   ELSE FALSE
    /\ UNCHANGED <<now, tpRest>>

TPInit ==
    /\ \E starts_as_speaker \in BOOLEAN :
          LET p == TurnProtocol_init(starts_as_speaker) IN
          /\ tp_state = p.state
          /\ tp_done_time = p.done_time
    /\ now = 1
    /\ tp_op = "init" /\ tp_sig = None /\ tp_event = None /\ tp_at = now
    /\ tp_prev = None
    /\ tp_green = FALSE /\ tp_prev_green = FALSE
    /\ TPRestOff

TPFinishSpeaking ==
    TPCall("finish_speaking", None, TurnProtocol_finish_speaking(TPSelf, now), None)

TPUpdate ==
    \E sig \in Signals :
        LET r == TurnProtocol_update(TPSelf, sig, now) IN
        TPCall("update", sig, r.self, r.ret)

TPStartSpeaking ==
    TPCall("start_speaking", None, TurnProtocol_start_speaking(TPSelf), None)

TPStartListening ==
    TPCall("start_listening", None, TurnProtocol_start_listening(TPSelf), None)

TPMainWaitLoop ==
    /\ tp_state = LISTENING
    /\ \E border \in Signals :
          TPCall("wait_loop", border, Main_wait_loop(TPSelf, border), None)

TPGetBorderColor ==
    TPCall("get_border_color", None, TPSelf, TurnProtocol_get_border_color(TPSelf))

TPTick ==
    /\ now < MaxClock
    /\ now' = now + 1
    /\ UNCHANGED <<tp_state, tp_done_time, tp_op, tp_sig, tp_event, tp_at,
                   tp_prev, tp_green, tp_prev_green, tpRest>>

TPNext ==
    \/ TPFinishSpeaking
    \/ TPUpdate
    \/ TPStartSpeaking
    \/ TPStartListening
    \/ TPMainWaitLoop
    \/ TPGetBorderColor
    \/ TPTick

SpecTurn == TPInit /\ [][TPNext]_vars

\* A TurnProtocol whose `state` attribute the caller has set to any member of
\* State (as main.py does with State.SPEAKING), with no done time recorded.
TPInitAny ==
    /\ tp_state \in State
    /\ tp_done_time = NoTime
    /\ now = 1
    /\ tp_op = "init" /\ tp_sig = None /\ tp_event = None /\ tp_at = now
    /\ tp_prev = None
    /\ tp_green = FALSE /\ tp_prev_green = FALSE
    /\ TPRestOff

SpecTurnAny == TPInitAny /\ [][TPNext]_vars

(***************************************************************************)
(* recognizer_mediapipe.py: class MediaPipeRecognizer.  detect_frame is    *)
(* the classifier: its best letter is an input of the model.               *)
(***************************************************************************)
MediaPipeRecognizer_init ==
    [accumulator |-> MP_LetterAccumulator_init(ACCUMULATION_FRAMES, MAX_GAP_FRAMES),
     word_buffer |-> <<>>]

\* process_frame(frame) where detect_frame(frame) reports best_letter: the
\* object after the call and the confirmed letter returned.
MediaPipeRecognizer_process_frame(self, best_letter) ==
    LET r == MP_LetterAccumulator_update(self.accumulator, best_letter) IN
    [self |-> [accumulator |-> r.self,
               word_buffer |-> IF r.ret # None
                               THEN Append(self.word_buffer, r.ret)
                               ELSE self.word_buffer],
     confirmed |-> r.ret]

MediaPipeRecognizer_clear(self) ==
    [accumulator |-> MP_LetterAccumulator_reset(self.accumulator),
     word_buffer |-> <<>>]

\* get_word() that returns the word and resets the accumulator but leaves the
\* buffer as it is.
MediaPipeRecognizer_get_word_keepsBuffer(self) ==
    [self |-> [accumulator |-> MP_LetterAccumulator_reset(self.accumulator),
               word_buffer |-> self.word_buffer],
     ret |-> self.word_buffer]

\* get_word(): the object after the call and the word returned (the joined
\* letters of word_buffer, as a sequence)
MediaPipeRecognizer_get_word(self) ==
    [self |-> [accumulator |-> MP_LetterAccumulator_reset(self.accumulator),
               word_buffer |-> <<>>],
     ret |-> self.word_buffer]

(***************************************************************************)
(* recognizer.py: class ASLRecognizer.  detect_frame is the classifier.    *)
(***************************************************************************)
ASLRecognizer_init ==
    [accumulator |-> LetterAccumulator_init(ACCUMULATION_FRAMES, MAX_GAP_FRAMES),
     word_buffer |-> <<>>]

ASLRecognizer_process_frame(self, best_letter) ==
    LET r == LetterAccumulator_update(self.accumulator, best_letter) IN
    [self |-> [accumulator |-> r.self,
               word_buffer |-> IF r.ret # None
                               THEN Append(self.word_buffer, r.ret)
                               ELSE self.word_buffer],
     confirmed |-> r.ret]

ASLRecognizer_get_word(self) ==
    [self |-> [accumulator |-> LetterAccumulator_reset(self.accumulator),
               word_buffer |-> <<>>],
     ret |-> self.word_buffer]

ASLRecognizer_clear(self) ==
    [accumulator |-> LetterAccumulator_reset(self.accumulator),
     word_buffer |-> <<>>]

(***************************************************************************)
(* The recognizer harness: both recognizers get the same classifier        *)
(* results and the same calls.                                             *)
(***************************************************************************)
RecCall(op, r, m, ret, mret) ==
    /\ rec' = r /\ mp_rec' = m
    /\ rec_op' = op /\ rec_prev_op' = rec_op
    /\ rec_ret' = ret /\ rec_prev_ret' = rec_ret /\ mp_rec_ret' = mret
    /\ rec_before' = rec /\ mp_rec_before' = mp_rec
    /\ UNCHANGED recRest

RecInit ==
    /\ rec = ASLRecognizer_init /\ mp_rec = MediaPipeRecognizer_init
    /\ rec_op = "init" /\ rec_prev_op = None
    /\ rec_ret = None /\ rec_prev_ret = None /\ mp_rec_ret = None
    /\ rec_before = None /\ mp_rec_before = None
    /\ RecRestOff

RecProcessFrame ==
    \E best \in RecLetters \cup {None} :
        /\ Len(rec.word_buffer) < MaxRecWord
        /\ best = None => rec.accumulator.gap < MaxGapCount
        /\ LET r == ASLRecognizer_process_frame(rec, best)
               m == MediaPipeRecognizer_process_frame(mp_rec, best)
           IN RecCall("process_frame", r.self, m.self, r.confirmed, m.confirmed)

RecGetWord ==
    LET r == ASLRecognizer_get_word(rec)
        m == MediaPipeRecognizer_get_word(mp_rec)
    IN RecCall("get_word", r.self, m.self, r.ret, m.ret)

RecClear ==
    /\ rec_op # "clear"
    /\ RecCall("clear", ASLRecognizer_clear(rec), MediaPipeRecognizer_clear(mp_rec),
               None, None)

RecNext == RecProcessFrame \/ RecGetWord \/ RecClear

SpecRec == RecInit /\ [][RecNext]_vars

(***************************************************************************)
(* The sentence assembler of listen_for_sentence (chat_claude_to_claude.py *)
(* lines 242-261), on the locals loc = [sentence, no_hand_frames,          *)
(* space_inserted], for one classifier tick that reported `best` and       *)
(* confirmed `confirmed`.                                                  *)
(***************************************************************************)
LastOf(seq) == seq[Len(seq)]

\* The assembler without the duplicate check on a confirmed symbol.
assemble_tick_noDedup(loc, best, confirmed) ==
    LET nh == IF best # None THEN 0 ELSE loc.no_hand_frames + 1
        si == IF best # None THEN FALSE ELSE loc.space_inserted
        sp == /\ nh >= SPACE_GAP_FRAMES /\ ~si
              /\ loc.sentence # <<>> /\ LastOf(loc.sentence) # " "
        s1 == IF sp THEN Append(loc.sentence, " ") ELSE loc.sentence
        s2 == IF confirmed # None THEN Append(s1, confirmed) ELSE s1
    IN [sentence |-> s2, no_hand_frames |-> nh,
        space_inserted |-> IF sp THEN TRUE ELSE si]

\* The assembler without the space_inserted flag and the last-character check
\* on a space.
assemble_tick_spaceAgain(loc, best, confirmed) ==
    LET nh == IF best # None THEN 0 ELSE loc.no_hand_frames + 1
        si == IF best # None THEN FALSE ELSE loc.space_inserted
        sp == nh >= SPACE_GAP_FRAMES /\ loc.sentence # <<>>
        s1 == IF sp THEN Append(loc.sentence, " ") ELSE loc.sentence
        s2 == IF confirmed # None /\ (s1 = <<>> \/ LastOf(s1) # confirmed)
              THEN Append(s1, confirmed) ELSE s1
    IN [sentence |-> s2, no_hand_frames |-> nh,
        space_inserted |-> IF sp THEN TRUE ELSE si]

\* The assembler that inserts the space one tick before the counter reaches
\* SPACE_GAP_FRAMES.
assemble_tick_early(loc, best, confirmed) ==
    LET nh == IF best # None THEN 0 ELSE loc.no_hand_frames + 1
        si == IF best # None THEN FALSE ELSE loc.space_inserted
        sp == /\ nh >= SPACE_GAP_FRAMES - 1 /\ ~si
              /\ loc.sentence # <<>> /\ LastOf(loc.sentence) # " "
        s1 == IF sp THEN Append(loc.sentence, " ") ELSE loc.sentence
        s2 == IF confirmed # None /\ (s1 = <<>> \/ LastOf(s1) # confirmed)
              THEN Append(s1, confirmed) ELSE s1
    IN [sentence |-> s2, no_hand_frames |-> nh,
        space_inserted |-> IF sp THEN TRUE ELSE si]

assemble_tick(loc, best, confirmed) ==
    LET \* Track hand presence for space detection
        nh == IF best # None THEN 0 ELSE loc.no_hand_frames + 1
        si == IF best # None THEN FALSE ELSE loc.space_inserted
        \* Insert space when hand gone long enough
        sp == /\ nh >= SPACE_GAP_FRAMES /\ ~si
              /\ loc.sentence # <<>> /\ LastOf(loc.sentence) # " "
        s1 == IF sp THEN Append(loc.sentence, " ") ELSE loc.sentence
        \* Skip duplicate consecutive letters
        s2 == IF confirmed # None /\ (s1 = <<>> \/ LastOf(s1) # confirmed)
              THEN Append(s1, confirmed) ELSE s1
    IN [sentence |-> s2, no_hand_frames |-> nh,
        space_inserted |-> IF sp THEN TRUE ELSE si]

(***************************************************************************)
(* The assembler harness: the classifier ticks of one listen_for_sentence  *)
(* call, or of the loop of tools/test_recognizer_mediapipe.py with its     *)
(* clear and backspace keys, under any classifier output.                  *)
(***************************************************************************)
AsmLoc == [sentence |-> sentence, no_hand_frames |-> no_hand_frames,
           space_inserted |-> space_inserted]

NumSpaces(seq) == Cardinality({i \in 1..Len(seq) : seq[i] = " "})

AsmInit ==
    /\ \/ asm_prog = "listen_for_sentence" /\ signing \in SignTexts
       \/ asm_prog = "test_tool" /\ signing \in ToolTexts
    /\ recognizer = MediaPipeRecognizer_clear(MediaPipeRecognizer_init)
    /\ sentence = <<>>
    /\ no_hand_frames = 0
    /\ space_inserted = TRUE
    /\ sign_pos = 0
    /\ asm_op = "init" /\ asm_best = None /\ asm_confirmed = None
    /\ asm_prev = <<>> /\ events = <<>> /\ events_ok = TRUE
    /\ AsmRestOff

\* One classifier tick: the peer holds its sign or moves to the next one, the
\* classifier reports that letter or nothing; process_frame, then the
\* assembler.
AsmDetect ==
    \E pos \in {sign_pos, sign_pos + 1}, seen \in BOOLEAN :
        LET best == IF seen /\ pos >= 1 THEN signing[pos] ELSE None
            r == MediaPipeRecognizer_process_frame(recognizer, best)
            a == assemble_tick(AsmLoc, best, r.confirmed)
            longGap == best = None /\ no_hand_frames + 1 = SPACE_GAP_FRAMES
            ev == IF r.confirmed # None THEN Append(events, r.confirmed)
                  ELSE IF longGap THEN Append(events, " ")
                  ELSE events
        IN /\ pos <= Len(signing)
           /\ sign_pos' = pos
           /\ best = None => /\ no_hand_frames < MaxNoHand
                             /\ recognizer.accumulator.gap < MaxNoHand
           /\ Len(r.self.word_buffer) <= MaxWord
           /\ longGap => NumSpaces(events) < MaxLongGaps
           /\ recognizer' = r.self
           /\ sentence' = a.sentence
           /\ no_hand_frames' = a.no_hand_frames
           /\ space_inserted' = a.space_inserted
           /\ asm_op' = "detect"
           /\ asm_best' = best
           /\ asm_confirmed' = r.confirmed
           /\ asm_prev' = sentence
           /\ events' = IF events_ok THEN ev ELSE <<>>
           /\ UNCHANGED <<asm_prog, signing, events_ok, asmRest>>

\* tools/test_recognizer_mediapipe.py, key C
AsmKeyClear ==
    /\ asm_prog = "test_tool"
    /\ asm_op # "clear"
    /\ sentence' = <<>>
    /\ recognizer' = MediaPipeRecognizer_clear(recognizer)
    /\ space_inserted' = TRUE
    /\ asm_op' = "clear" /\ asm_best' = None /\ asm_confirmed' = None
    /\ asm_prev' = sentence
    /\ events' = <<>> /\ events_ok' = TRUE
    /\ UNCHANGED <<asm_prog, no_hand_frames, signing, sign_pos, asmRest>>

\* tools/test_recognizer_mediapipe.py, key BACKSPACE
AsmKeyBackspace ==
    /\ asm_prog = "test_tool"
    /\ sentence # <<>>
    /\ sentence' = SubSeq(sentence, 1, Len(sentence) - 1)
    /\ asm_op' = "backspace" /\ asm_best' = None /\ asm_confirmed' = None
    /\ asm_prev' = sentence
    /\ events' = <<>> /\ events_ok' = FALSE
    /\ UNCHANGED <<asm_prog, recognizer, no_hand_frames, space_inserted,
                   signing, sign_pos, asmRest>>

AsmNext == AsmDetect \/ AsmKeyClear \/ AsmKeyBackspace

SpecAsm == AsmInit /\ [][AsmNext]_vars

(***************************************************************************)
(* chat_claude_to_claude.py: two processes, one started with               *)
(* --role speaker and one with --role listener, each reading the other's   *)
(* screen through its camera.  Every frame read succeeds and the border    *)
(* colour is decoded as the colour the peer shows; the classifier sees the *)
(* letter the peer shows or misses it.                                     *)
(***************************************************************************)
Agents == {"speaker", "listener"}

Peer(a) == IF a = "speaker" THEN "listener" ELSE "speaker"

\* time.time() at the start of the run
ChatEpoch == SENTENCE_DONE_TIMEOUT

\* A strip() that removes the leading spaces only.
RECURSIVE Strip_leading(_)
Strip_leading(seq) ==
    IF seq = <<>> THEN <<>>
    ELSE IF seq[1] = " " THEN Strip_leading(Tail(seq))
    ELSE seq

\* str.strip() on the joined sentence
RECURSIVE Strip(_)
Strip(seq) ==
    IF seq = <<>> THEN <<>>
    ELSE IF seq[1] = " " THEN Strip(Tail(seq))
    ELSE IF seq[Len(seq)] = " " THEN Strip(SubSeq(seq, 1, Len(seq) - 1))
    ELSE seq

\* display.show_letter / show_blank / show_word: the border colour and the
\* hand sign on the screen (show_blank and show_word show no hand sign)
Show(ag, color, glyph) == [ag EXCEPT !.color = color, !.glyph = glyph]

\* main, up to the conversation loop
Main_init(role, rounds_arg) ==
    [speaking |-> (role = "speaker"), rounds |-> 0, limit |-> rounds_arg,
     history |-> <<>>, phase |-> "init", start |-> 0,
     text |-> <<>>, pos |-> 1, color |-> None, glyph |-> None,
     recognizer |-> MediaPipeRecognizer_init,
     sentence |-> <<>>, no_hand_frames |-> 0, space_inserted |-> TRUE,
     last_detect_time |-> 0, last_letter_time |-> NoTime,
     frame_time |-> 0, event |-> None]

\* listen_for_sentence, up to its loop
listen_for_sentence_enter(ag) ==
    [Show(ag, "cyan", None) EXCEPT
        !.phase = "listen",
        !.recognizer = MediaPipeRecognizer_clear(@),
        !.sentence = <<>>, !.no_hand_frames = 0, !.space_inserted = TRUE,
        !.last_detect_time = 0, !.last_letter_time = NoTime]

\* The head of a conversation loop that runs while rounds <= args.rounds.
Main_loop_top_lax(ag, t) ==
    IF ag.rounds > ag.limit
    THEN [Show(ag, None, None) EXCEPT !.phase = "stopped"]
    ELSE IF ag.speaking
    THEN [ag EXCEPT !.rounds = @ + 1, !.phase = "ask", !.start = t]
    ELSE listen_for_sentence_enter(ag)

\* main: the head of the conversation loop and the branch it takes, up to the
\* first wait of that branch; after the loop the display is closed
Main_loop_top(ag, t) ==
    IF ag.rounds >= ag.limit
    THEN [Show(ag, None, None) EXCEPT !.phase = "stopped"]
    ELSE IF ag.speaking
    THEN [ag EXCEPT !.rounds = @ + 1, !.phase = "ask", !.start = t]
    ELSE listen_for_sentence_enter(ag)

\* speak_text that shows the full text with the red border.
speak_text_char_redText(ag, t) ==
    IF ag.pos > Len(ag.text)
    THEN [Show(ag, "red", None) EXCEPT !.phase = "full_text", !.start = t]
    ELSE IF ag.text[ag.pos] = " "
    THEN [Show(ag, "green", None) EXCEPT
             !.phase = "word_pause", !.start = t, !.pos = @ + 1]
    ELSE [Show(ag, "green", ag.text[ag.pos]) EXCEPT
             !.phase = "letter", !.start = t, !.pos = @ + 1]

\* speak_text: the character at `pos` goes on the screen
speak_text_char(ag, t) ==
    IF ag.pos > Len(ag.text)
    THEN [Show(ag, "green", None) EXCEPT !.phase = "full_text", !.start = t]
    ELSE IF ag.text[ag.pos] = " "
    THEN [Show(ag, "green", None) EXCEPT
             !.phase = "word_pause", !.start = t, !.pos = @ + 1]
    ELSE [Show(ag, "green", ag.text[ag.pos]) EXCEPT
             !.phase = "letter", !.start = t, !.pos = @ + 1]

\* How long each wait lasts
Duration(phase) ==
    CASE phase = "letter" -> LETTER_DISPLAY_TIME
      [] phase = "letter_pause" -> LETTER_PAUSE_TIME
      [] phase = "word_pause" -> WORD_PAUSE_TIME
      [] phase = "full_text" -> FULL_TEXT_TIME
      [] phase = "red" -> RED_TIME
      [] phase = "got" -> GOT_TIME
      [] phase = "ask" -> MaxAskTime

\* speak_text and signal_done: the wait of `phase` is over
speak_text_step(ag, t) ==
    CASE ag.phase = "letter" ->
            [Show(ag, "green", None) EXCEPT !.phase = "letter_pause", !.start = t]
      [] ag.phase \in {"letter_pause", "word_pause"} -> speak_text_char(ag, t)
      [] ag.phase = "full_text" ->
            [Show(ag, "red", None) EXCEPT !.phase = "red", !.start = t]

\* A main that logs the text that came in as sent.
Main_received_asSent(ag, text, t, how) ==
    [Show(ag, "cyan", None) EXCEPT
        !.history = Append(@, <<"sent", text>>),
        !.phase = "got", !.start = t, !.event = how]

\* main: the text came in; it is logged and shown for GOT_TIME
Main_received(ag, text, t, how) ==
    [Show(ag, "cyan", None) EXCEPT
        !.history = Append(@, <<"received", text>>),
        !.phase = "got", !.start = t, !.event = how]

\* listen_for_sentence whose silence timeout needs more than
\* SENTENCE_DONE_TIMEOUT since the last letter.
listen_for_sentence_frame_strict(ag, border, best, t) ==
    LET text == Strip(ag.sentence)
        a1   == [ag EXCEPT !.frame_time = t]
    IN IF border = "red"
       THEN IF text # <<>>
            THEN Main_received(a1, text, t, "red")
            ELSE Main_loop_top([a1 EXCEPT !.event = "red_empty"], t)
       ELSE IF /\ ag.sentence # <<>>
               /\ ag.last_letter_time # NoTime /\ ag.last_letter_time # 0
               /\ t - ag.last_letter_time > SENTENCE_DONE_TIMEOUT
               /\ text # <<>>
       THEN Main_received(a1, text, t, "timeout")
       ELSE IF t - ag.last_detect_time >= DETECT_INTERVAL
       THEN LET r   == MediaPipeRecognizer_process_frame(ag.recognizer, best)
                loc == assemble_tick(
                          [sentence |-> ag.sentence,
                           no_hand_frames |-> ag.no_hand_frames,
                           space_inserted |-> ag.space_inserted],
                          best, r.confirmed)
            IN [a1 EXCEPT
                   !.recognizer = r.self,
                   !.sentence = loc.sentence,
                   !.no_hand_frames = loc.no_hand_frames,
                   !.space_inserted = loc.space_inserted,
                   !.last_detect_time = t,
                   !.last_letter_time = IF r.confirmed # None THEN t ELSE @,
                   !.event = "detect"]
       ELSE [a1 EXCEPT !.event = "frame"]

\* listen_for_sentence that runs the classifier on the frame before it
\* looks at the border.
listen_for_sentence_frame_classifiesRed(ag, border, best, t) ==
    LET r    == MediaPipeRecognizer_process_frame(ag.recognizer, best)
        loc  == assemble_tick(
                   [sentence |-> ag.sentence,
                    no_hand_frames |-> ag.no_hand_frames,
                    space_inserted |-> ag.space_inserted],
                   best, r.confirmed)
        a1   == [ag EXCEPT !.frame_time = t]
        a2   == [a1 EXCEPT
                    !.recognizer = r.self,
                    !.sentence = loc.sentence,
                    !.no_hand_frames = loc.no_hand_frames,
                    !.space_inserted = loc.space_inserted,
                    !.last_detect_time = t,
                    !.last_letter_time = IF r.confirmed # None THEN t ELSE @,
                    !.event = "detect"]
        text == Strip(ag.sentence)
    IN IF border = "red"
       THEN IF Strip(a2.sentence) # <<>>
            THEN Main_received(a2, Strip(a2.sentence), t, "red")
            ELSE Main_loop_top([a2 EXCEPT !.event = "red_empty"], t)
       ELSE IF /\ ag.sentence # <<>>
               /\ ag.last_letter_time # NoTime /\ ag.last_letter_time # 0
               /\ t - ag.last_letter_time >= SENTENCE_DONE_TIMEOUT
               /\ text # <<>>
       THEN Main_received(a1, text, t, "timeout")
       ELSE IF t - ag.last_detect_time >= DETECT_INTERVAL
       THEN a2
       ELSE [a1 EXCEPT !.event = "frame"]

\* listen_for_sentence that restarts the silence timer only when the
\* confirmed letter was appended.
listen_for_sentence_frame_timesAppended(ag, border, best, t) ==
    LET text == Strip(ag.sentence)
        a1   == [ag EXCEPT !.frame_time = t]
    IN IF border = "red"
       THEN IF text # <<>>
            THEN Main_received(a1, text, t, "red")
            ELSE Main_loop_top([a1 EXCEPT !.event = "red_empty"], t)
       ELSE IF /\ ag.sentence # <<>>
               /\ ag.last_letter_time # NoTime /\ ag.last_letter_time # 0
               /\ t - ag.last_letter_time >= SENTENCE_DONE_TIMEOUT
               /\ text # <<>>
       THEN Main_received(a1, text, t, "timeout")
       ELSE IF t - ag.last_detect_time >= DETECT_INTERVAL
       THEN LET r   == MediaPipeRecognizer_process_frame(ag.recognizer, best)
                loc == assemble_tick(
                          [sentence |-> ag.sentence,
                           no_hand_frames |-> ag.no_hand_frames,
                           space_inserted |-> ag.space_inserted],
                          best, r.confirmed)
            IN [a1 EXCEPT
                   !.recognizer = r.self,
                   !.sentence = loc.sentence,
                   !.no_hand_frames = loc.no_hand_frames,
                   !.space_inserted = loc.space_inserted,
                   !.last_detect_time = t,
                   !.last_letter_time =
                       IF r.confirmed # None /\ loc.sentence # ag.sentence
                       THEN t ELSE @,
                   !.event = "detect"]
       ELSE [a1 EXCEPT !.event = "frame"]

\* listen_for_sentence: one pass of its loop on a frame with this border and
\* this best letter, and what main does when it returns
listen_for_sentence_frame(ag, border, best, t) ==
    LET text == Strip(ag.sentence)
        a1   == [ag EXCEPT !.frame_time = t]
    IN IF border = "red"
       THEN IF text # <<>>
            THEN Main_received(a1, text, t, "red")
            ELSE Main_loop_top([a1 EXCEPT !.event = "red_empty"], t)
       ELSE IF /\ ag.sentence # <<>>
               /\ ag.last_letter_time # NoTime /\ ag.last_letter_time # 0
               /\ t - ag.last_letter_time >= SENTENCE_DONE_TIMEOUT
               /\ text # <<>>
       THEN Main_received(a1, text, t, "timeout")
       ELSE IF t - ag.last_detect_time >= DETECT_INTERVAL
       THEN LET r   == MediaPipeRecognizer_process_frame(ag.recognizer, best)
                loc == assemble_tick(
                          [sentence |-> ag.sentence,
                           no_hand_frames |-> ag.no_hand_frames,
                           space_inserted |-> ag.space_inserted],
                          best, r.confirmed)
            IN [a1 EXCEPT
                   !.recognizer = r.self,
                   !.sentence = loc.sentence,
                   !.no_hand_frames = loc.no_hand_frames,
                   !.space_inserted = loc.space_inserted,
                   !.last_detect_time = t,
                   !.last_letter_time = IF r.confirmed # None THEN t ELSE @,
                   !.event = "detect"]
       ELSE [a1 EXCEPT !.event = "frame"]

ChatInit ==
    /\ cnow = ChatEpoch
    /\ \E n \in 1..MaxRounds :
          agents = [a \in Agents |-> Main_loop_top(Main_init(a, n), ChatEpoch)]
    /\ ChatRestOff

\* ask_claude returns with a text; speak_text starts
ChatAskClaude(a) ==
    /\ agents[a].phase = "ask"
    /\ \E text \in ChatTexts :
          agents' = [agents EXCEPT ![a] =
                        speak_text_char(
                           [@ EXCEPT !.history = Append(@, <<"sent", text>>),
                                     !.text = text, !.pos = 1, !.event = None],
                           cnow)]
    /\ UNCHANGED <<cnow, chatRest>>

\* speak_text: a wait is over
ChatSpeakText(a) ==
    /\ agents[a].phase \in {"letter", "letter_pause", "word_pause", "full_text"}
    /\ cnow - agents[a].start >= Duration(agents[a].phase)
    /\ agents' = [agents EXCEPT ![a] = speak_text_step(@, cnow)]
    /\ UNCHANGED <<cnow, chatRest>>

\* signal_done is over; main switches to listening
ChatSignalDone(a) ==
    /\ agents[a].phase = "red"
    /\ cnow - agents[a].start >= RED_TIME
    /\ agents' = [agents EXCEPT ![a] =
                     Main_loop_top([@ EXCEPT !.speaking = FALSE], cnow)]
    /\ UNCHANGED <<cnow, chatRest>>

\* listen_for_sentence reads a frame of the peer's screen
ChatListen(a) ==
    /\ agents[a].phase = "listen"
    /\ agents[a].frame_time < cnow
    /\ \E best \in {agents[Peer(a)].glyph, None} :
          agents' = [agents EXCEPT ![a] =
                        listen_for_sentence_frame(
                           @, agents[Peer(a)].color, best, cnow)]
    /\ UNCHANGED <<cnow, chatRest>>

\* main: "GOT: ..." has been shown; main switches to speaking
ChatGotShown(a) ==
    /\ agents[a].phase = "got"
    /\ cnow - agents[a].start >= GOT_TIME
    /\ agents' = [agents EXCEPT ![a] =
                     Main_loop_top([@ EXCEPT !.speaking = TRUE, !.event = None],
                                   cnow)]
    /\ UNCHANGED <<cnow, chatRest>>

\* A tenth of a second passes: no wait is over, and every listening process
\* has read a frame in this tenth
ChatTick ==
    /\ cnow < ChatEpoch + MaxChatClock
    /\ \A a \in Agents :
          CASE agents[a].phase = "listen" -> agents[a].frame_time = cnow
            [] agents[a].phase = "stopped" -> TRUE
            [] OTHER -> cnow - agents[a].start < Duration(agents[a].phase)
    /\ cnow' = cnow + 1
    /\ UNCHANGED <<agents, chatRest>>

ChatNext ==
    \/ \E a \in Agents : ChatAskClaude(a)
    \/ \E a \in Agents : ChatSpeakText(a)
    \/ \E a \in Agents : ChatSignalDone(a)
    \/ \E a \in Agents : ChatListen(a)
    \/ \E a \in Agents : ChatGotShown(a)
    \/ ChatTick

SpecChat == ChatInit /\ [][ChatNext]_vars

(***************************************************************************)
(* One process of chat_claude_to_claude.py from start to end.  What its    *)
(* camera sees is free: any border, any letter or none; a frame read may   *)
(* fail, the classifier may raise, the user may press Q/ESC or Ctrl-C.     *)
(***************************************************************************)
SessStep(op, prev, key, checked, ok) ==
    [op |-> op, prev |-> prev, key |-> key, checked |-> checked, ok |-> ok]

\* main of chat_claude_to_claude.py, up to the conversation loop: the camera
\* and the display are open
Main_start(role, rounds_arg) ==
    Main_init(role, rounds_arg) @@
    [prog |-> "chat_claude_to_claude", cap_released |-> 0, display_closed |-> 0,
     reported |-> None, protocol |-> None, sent_words |-> <<>>,
     received_words |-> <<>>, last_received |-> None]

\* The process is over: of what it held, the history, the report and the
\* counts of releases are kept for the record
Main_ended(ag, how) ==
    [Main_start("listener", ag.limit) EXCEPT
        !.phase = how, !.rounds = ag.rounds, !.history = ag.history,
        !.reported = ag.reported, !.cap_released = ag.cap_released,
        !.display_closed = ag.display_closed]

\* main after the loop: the conversation log, cap.release(), display.close()
Main_teardown(ag) ==
    Main_ended([ag EXCEPT !.reported = ag.history,
                          !.cap_released = @ + 1, !.display_closed = @ + 1],
               "exited")

\* An exception other than KeyboardInterrupt leaves main through the try
\* statement: the process ends in the traceback
Main_uncaught(ag) == Main_ended(ag, "crashed")

\* The loop condition `rounds < args.rounds` failed
Main_after_loop(ag) == IF ag.phase = "stopped" THEN Main_teardown(ag) ELSE ag

(***************************************************************************)
(* conversation.py without --script (response mode).  A word is a sequence *)
(* of upper-case letters; the empty word stands for None.                  *)
(***************************************************************************)
LETTERS == {"A", "B", "C", "D", "E", "F", "G", "H", "I", "K", "L", "M", "N",
            "O", "P", "Q", "R", "S", "T", "U", "V", "W", "X", "Y"}

NoWord == <<>>

GREETINGS == << <<"H", "I">>, <<"H", "E", "L", "L", "O">>, <<"H", "E", "Y">> >>

\* The dictionary RESPONSES as the set of its (key, value) pairs
RESPONSES ==
    { << <<"H", "I">>, <<"H", "E", "L", "L", "O">> >>,
      << <<"H", "E", "L", "L", "O">>, <<"H", "I">> >>,
      << <<"H", "E", "Y">>, <<"H", "I">> >>,
      << <<"H", "O", "W">>, <<"G", "O", "O", "D">> >>,
      << <<"G", "O", "O", "D">>, <<"T", "H", "A", "N", "K", "S">> >>,
      << <<"T", "H", "A", "N", "K", "S">>, <<"W", "E", "L", "C", "O", "M", "E">> >>,
      << <<"W", "E", "L", "C", "O", "M", "E">>, <<"B", "Y", "E">> >>,
      << <<"B", "Y", "E">>, <<"B", "Y", "E">> >>,
      << <<"Y", "E", "S">>, <<"O", "K">> >>,
      << <<"N", "O">>, <<"O", "K">> >>,
      << <<"O", "K">>, <<"C", "O", "O", "L">> >>,
      << <<"C", "O", "O", "L">>, <<"N", "I", "C", "E">> >>,
      << <<"N", "I", "C", "E">>, <<"T", "H", "A", "N", "K", "S">> >>,
      << <<"W", "H", "A", "T">>, <<"N", "O", "T", "H", "I", "N", "G">> >>,
      << <<"W", "H", "O">>, <<"M", "E">> >>,
      << <<"N", "A", "M", "E">>, <<"G", "R", "E", "T", "C", "H", "E", "N">> >> }

InLETTERS(c) == c \in LETTERS

validate_word(word) == \A i \in 1..Len(word) : word[i] \in LETTERS

get_response(received_word) ==
    LET word     == Strip(received_word)
        filtered == SelectSeq(word, InLETTERS)
    IN IF \E p \in RESPONSES : p[1] = word
       THEN (CHOOSE p \in RESPONSES : p[1] = word)[2]
       ELSE IF validate_word(word) THEN word
       ELSE IF filtered # <<>> THEN filtered
       ELSE <<"O", "K">>

\* get_next_word of a manager without script: the manager after the call and
\* the word returned
ConversationManager_get_next_word(self, last_received) ==
    IF last_received # NoWord
    THEN LET response == get_response(last_received)
         IN [self |-> [self EXCEPT !.sent_words = Append(@, response)],
             ret |-> response]
    ELSE IF self.sent_words = <<>>
    THEN [self |-> [self EXCEPT !.sent_words = Append(@, GREETINGS[1])],
          ret |-> GREETINGS[1]]
    ELSE [self |-> self, ret |-> NoWord]

ConversationManager_receive_word(self, word) ==
    [self EXCEPT !.received_words = Append(@, word)]

RECURSIVE Interleave(_, _)
Interleave(sent, received) ==
    IF sent = <<>> /\ received = <<>> THEN <<>>
    ELSE (IF sent # <<>> THEN << <<"sent", Head(sent)>> >> ELSE <<>>)
         \o (IF received # <<>> THEN << <<"received", Head(received)>> >> ELSE <<>>)
         \o Interleave(IF sent # <<>> THEN Tail(sent) ELSE <<>>,
                       IF received # <<>> THEN Tail(received) ELSE <<>>)

ConversationManager_get_history(self) ==
    Interleave(self.sent_words, self.received_words)

(***************************************************************************)
(* main.py: one process.  It shares the record of the process above; its   *)
(* turn state is `protocol`, its message buffer the recognizer's           *)
(* word_buffer, its conversation sent_words and received_words.  Two of   *)
(* its fields are bookkeeping of the model: last_letter_time is the time   *)
(* of the last letter that process_frame confirmed, and history lists the  *)
(* calls of get_next_word and receive_word that recorded a word, in the    *)
(* order in which they happened (main.py keeps neither).                   *)
(***************************************************************************)
\* main of main.py, up to the conversation loop
MainPy_start(is_speaker_first) ==
    LET protocol == TurnProtocol_init(is_speaker_first) IN
    [Main_start("listener", 0) EXCEPT
        !.prog = "main", !.recognizer = ASLRecognizer_init,
        !.protocol = protocol, !.last_received = NoWord,
        !.color = TurnProtocol_get_border_color(protocol)]

\* The process is over: the conversation, the report and the counts of
\* releases are kept for the record
MainPy_ended(ag, how) ==
    [MainPy_start(FALSE) EXCEPT
        !.phase = how, !.color = None,
        !.sent_words = ag.sent_words, !.received_words = ag.received_words,
        !.history = ag.history,
        !.reported = ag.reported, !.cap_released = ag.cap_released,
        !.display_closed = ag.display_closed]

\* main after the loop: the conversation log, display.close(); the camera is
\* not released
MainPy_teardown(ag) ==
    MainPy_ended([ag EXCEPT !.reported = ConversationManager_get_history(ag),
                            !.display_closed = @ + 1],
                 "exited")

\* An exception other than KeyboardInterrupt leaves main
MainPy_uncaught(ag) == MainPy_ended(ag, "crashed")

\* speak_word: the letter at `pos` goes on the screen; what is not in
\* config.LETTERS is skipped
RECURSIVE speak_word_char(_, _)
speak_word_char(ag, t) ==
    IF ag.pos > Len(ag.text)
    THEN [Show(ag, "green", None) EXCEPT !.phase = "word_shown", !.start = t]
    ELSE IF ag.text[ag.pos] \notin LETTERS
    THEN speak_word_char([ag EXCEPT !.pos = @ + 1], t)
    ELSE [Show(ag, "green", ag.text[ag.pos]) EXCEPT
             !.phase = "letter", !.start = t, !.pos = @ + 1]

\* How long each wait of main.py lasts
MainPyDuration(phase) ==
    CASE phase = "letter" -> LETTER_DISPLAY_TIME
      [] phase = "letter_pause" -> LETTER_PAUSE_TIME
      [] phase = "word_shown" -> WORD_SHOWN_TIME
      [] phase = "got_sleep" -> GOT_SLEEP_TIME

\* speak_word: the wait of `phase` is over; after the word main calls
\* protocol.finish_speaking() and shows the red border
speak_word_step(ag, t) ==
    CASE ag.phase = "letter" ->
            [Show(ag, "green", None) EXCEPT !.phase = "letter_pause", !.start = t]
      [] ag.phase = "letter_pause" -> speak_word_char(ag, t)
      [] ag.phase = "word_shown" ->
            [Show(ag, "red", None) EXCEPT
                !.protocol = TurnProtocol_finish_speaking(@, t),
                !.phase = "done_wait", !.start = t]

\* listen_for_word, up to its loop
listen_for_word_enter(ag) ==
    [Show(ag, "cyan", None) EXCEPT
        !.phase = "listen_word",
        !.recognizer = ASLRecognizer_clear(@),
        !.last_letter_time = NoTime]

\* main: the head of `while True` and the branch it takes, up to the first
\* wait of that branch
MainPy_loop_top(ag, t) ==
    IF ag.protocol.state = SPEAKING
    THEN LET r == ConversationManager_get_next_word(ag, ag.last_received) IN
         IF r.ret = NoWord
         THEN MainPy_teardown(ag)
         ELSE speak_word_char(
                 [r.self EXCEPT !.text = r.ret, !.pos = 1,
                                !.history = Append(@, <<"sent", r.ret>>)], t)
    ELSE IF ag.protocol.state = LISTENING
    THEN [Show(ag, "cyan", None) EXCEPT !.phase = "wait_green"]
    ELSE [ag EXCEPT !.phase = "idle"]

\* The DONE_SPEAKING wait loop in a variant that skips the whole pass,
\* protocol.update() included, when the read failed.
MainPy_done_loop_pass_skips(ag, ok, key, t) ==
    LET r  == IF ok THEN TurnProtocol_update(ag.protocol, None, t)
                    ELSE [self |-> ag.protocol, ret |-> None]
        a1 == [ag EXCEPT !.protocol = r.self]
    IN IF key \/ r.self.state # DONE_SPEAKING
       THEN MainPy_loop_top(a1, t)
       ELSE a1

\* The DONE_SPEAKING wait loop, one pass: protocol.update() is called whether
\* or not the frame was read; ESC breaks the loop
MainPy_done_loop_pass(ag, ok, key, t) ==
    LET r  == TurnProtocol_update(ag.protocol, None, t)
        a1 == [ag EXCEPT !.protocol = r.self]
    IN IF key \/ r.self.state # DONE_SPEAKING
       THEN MainPy_loop_top(a1, t)
       ELSE a1

\* The wait loop of the listening branch, one pass on a frame that was read
MainPy_wait_loop_pass(ag, border, key, t) ==
    IF border = "green"
    THEN listen_for_word_enter(ag)
    ELSE IF border = "red"
    THEN MainPy_loop_top([ag EXCEPT !.protocol = Main_wait_loop(@, border)], t)
    ELSE IF key THEN MainPy_teardown(ag)
    ELSE ag

\* main after listen_for_word returned None: ESC seen by cv2.waitKey(1)
\* breaks the loop, otherwise the loop continues
MainPy_no_word(ag, esc, t) ==
    IF esc THEN MainPy_teardown(ag) ELSE MainPy_loop_top(ag, t)

\* listen_for_word, one pass on a frame that was read, and what main does
\* when it returns: `key` is ESC at listen_for_word's cv2.waitKey, `esc` is
\* ESC at main's
listen_for_word_frame(ag, border, best, key, esc, t) ==
    IF border = "red"
    THEN LET w == ASLRecognizer_get_word(ag.recognizer)
             a1 == [ag EXCEPT !.recognizer = w.self]
         IN IF w.ret # <<>>
            THEN [Show(ConversationManager_receive_word(a1, w.ret), "cyan", None)
                     EXCEPT !.last_received = w.ret,
                            !.history = Append(@, <<"received", w.ret>>),
                            !.phase = "got_sleep", !.start = t]
            ELSE MainPy_no_word(a1, esc, t)
    ELSE LET r  == ASLRecognizer_process_frame(ag.recognizer, best)
             a1 == [ag EXCEPT !.recognizer = r.self,
                              !.last_letter_time =
                                  IF r.confirmed # None THEN t ELSE @]
         IN IF key THEN MainPy_no_word(a1, esc, t) ELSE a1

\* The idle branch of main's loop, one pass
MainPy_idle_pass(ag, ok, border, key, t) ==
    IF key THEN MainPy_teardown(ag)
    ELSE IF ok
    THEN MainPy_loop_top(
            [ag EXCEPT !.protocol = TurnProtocol_update(@, border, t).self], t)
    ELSE MainPy_loop_top(ag, t)

SessRunning == sess.phase \notin {"exited", "crashed"}

SessInitChat ==
    \E role \in Agents, n \in 1..MaxRounds :
        sess = Main_after_loop(Main_loop_top(Main_start(role, n), ChatEpoch))

\* ask_claude returns with a text; speak_text starts
SessAskClaude ==
    /\ sess.prog = "chat_claude_to_claude" /\ sess.phase = "ask"
    /\ \E text \in ChatTexts :
          sess' = speak_text_char(
                     [sess EXCEPT !.history = Append(@, <<"sent", text>>),
                                  !.text = text, !.pos = 1, !.event = None],
                     snow)
    /\ sess_step' = SessStep("ask_claude", None, FALSE, FALSE, TRUE)
    /\ UNCHANGED <<snow, senv, sessRest>>

\* speak_text: a wait is over
SessSpeakText ==
    /\ sess.prog = "chat_claude_to_claude"
    /\ sess.phase \in {"letter", "letter_pause", "word_pause", "full_text"}
    /\ snow - sess.start >= Duration(sess.phase)
    /\ sess' = speak_text_step(sess, snow)
    /\ sess_step' = SessStep("speak_text", None, FALSE, FALSE, TRUE)
    /\ UNCHANGED <<snow, senv, sessRest>>

\* signal_done is over; main switches to listening
SessSignalDone ==
    /\ sess.prog = "chat_claude_to_claude" /\ sess.phase = "red"
    /\ snow - sess.start >= RED_TIME
    /\ sess' = Main_after_loop(Main_loop_top([sess EXCEPT !.speaking = FALSE], snow))
    /\ sess_step' = SessStep("signal_done", None, FALSE, FALSE, TRUE)
    /\ UNCHANGED <<snow, senv, sessRest>>

\* main: "GOT: ..." has been shown; main switches to speaking
SessGotShown ==
    /\ sess.prog = "chat_claude_to_claude" /\ sess.phase = "got"
    /\ snow - sess.start >= GOT_TIME
    /\ sess' = Main_after_loop(
                  Main_loop_top([sess EXCEPT !.speaking = TRUE, !.event = None], snow))
    /\ sess_step' = SessStep("got_shown", None, FALSE, FALSE, TRUE)
    /\ UNCHANGED <<snow, senv, sessRest>>

\* listen_for_sentence has returned: its locals are gone
listen_for_sentence_returned(ag) ==
    IF ag.phase = "listen" THEN ag
    ELSE [ag EXCEPT !.sentence = <<>>, !.no_hand_frames = 0,
                    !.space_inserted = TRUE, !.last_detect_time = 0,
                    !.last_letter_time = NoTime]

\* The history the process would report
SessHistory(ag) ==
    IF ag.prog = "main" THEN ConversationManager_get_history(ag) ELSE ag.history

\* The core state of the process: where it is (phase), whose turn it is, the
\* message buffer, the no-presence counter, the space flag, the accumulator,
\* the silence timer and the history
SessView(ag) ==
    [phase |-> ag.phase,
     turn |-> IF ag.prog = "main" THEN ag.protocol.state ELSE ag.speaking,
     done_time |-> IF ag.prog = "main" THEN ag.protocol.done_time ELSE NoTime,
     sentence |-> IF ag.prog = "main" THEN ag.recognizer.word_buffer
                                      ELSE ag.sentence,
     no_hand_frames |-> ag.no_hand_frames,
     space_inserted |-> ag.space_inserted,
     accumulator |-> ag.recognizer.accumulator,
     last_letter_time |-> ag.last_letter_time,
     history |-> SessHistory(ag)]

\* What main does after its loop
SessTeardown(ag) ==
    IF ag.prog = "main" THEN MainPy_teardown(ag) ELSE Main_teardown(ag)

SessDuration(ag) ==
    IF ag.prog = "main" THEN MainPyDuration(ag.phase) ELSE Duration(ag.phase)

\* The waits whose loop compares the key that cv2.waitKey returned with
\* Q/ESC (speak_text lines 123-128 and 138-143); the other waits call
\* cv2.waitKey and drop what it returns
WaitChecksKey(phase) == phase \in {"letter", "word_pause"}

\* Q or ESC is pressed during a pass of the loop of a timed wait
SessKeyInWait ==
    /\ sess.prog = "chat_claude_to_claude"
    /\ sess.phase \in {"letter", "letter_pause", "word_pause", "full_text",
                       "red", "got"}
    /\ snow - sess.start < Duration(sess.phase)
    /\ senv.keys < MaxKeys
    /\ senv' = [senv EXCEPT !.keys = @ + 1]
    /\ sess' = IF WaitChecksKey(sess.phase) THEN Main_teardown(sess) ELSE sess
    /\ sess_step' = SessStep("wait", SessView(sess), TRUE,
                             WaitChecksKey(sess.phase), TRUE)
    /\ UNCHANGED <<snow, sessRest>>

\* What programme n of the screen shows at tick t
ScreenAt(n, t) ==
    LET prog == SessScreens[n]
        i    == CHOOSE k \in 1..Len(prog) :
                    /\ prog[k][1] <= t
                    /\ \A m \in 1..Len(prog) : prog[m][1] <= t => m <= k
    IN prog[i]

\* listen_for_sentence: one pass of its loop, a tenth of a second long.  A
\* failed read goes to the next pass; the classifier runs on the passes that
\* detect and may raise; the passes that reach the end look at the key, and
\* on Q/ESC the function returns None, on which main continues its loop.
SessListen ==
    /\ sess.prog = "chat_claude_to_claude" /\ sess.phase = "listen"
    /\ snow < ChatEpoch + MaxSessClock
    /\ snow' = snow + 1
    /\ \E ok \in BOOLEAN, key \in BOOLEAN, raises \in BOOLEAN :
          LET border == ScreenAt(senv.screen, snow)[2]
              best   == ScreenAt(senv.screen, snow)[3]
          IN
          /\ key => senv.keys < MaxKeys
          /\ senv' = [senv EXCEPT !.fails = IF ok THEN @ ELSE @ + 1,
                                  !.keys = IF key THEN @ + 1 ELSE @]
          /\ IF ~ok
             THEN /\ senv.fails < MaxReadFails
                  /\ sess' = sess
                  /\ sess_step' = SessStep("listen", SessView(sess), key, FALSE, FALSE)
             ELSE LET r == listen_for_sentence_frame(sess, border, best, snow) IN
                  IF r.event = "detect" /\ raises
                  THEN /\ ~key
                       /\ sess' = Main_uncaught(sess)
                       /\ sess_step' = SessStep("classifier_raised", SessView(sess),
                                                FALSE, FALSE, TRUE)
                  ELSE IF r.event \in {"detect", "frame"}
                  THEN /\ ~raises
                       /\ sess' = IF key
                                  THEN Main_after_loop(Main_loop_top(
                                          [r EXCEPT !.event = "cancel"], snow))
                                  ELSE r
                       /\ sess_step' = SessStep("listen", SessView(sess), key, TRUE, TRUE)
                  ELSE /\ ~raises /\ ~key
                       /\ sess' = listen_for_sentence_returned(r)
                       /\ sess_step' = SessStep("listen", SessView(sess), FALSE, FALSE, TRUE)
    /\ UNCHANGED sessRest

\* Ctrl-C: KeyboardInterrupt is raised in the loop and caught by main
SessInterrupt ==
    /\ SessRunning
    /\ sess' = SessTeardown(sess)
    /\ sess_step' = SessStep("interrupt", None, FALSE, FALSE, TRUE)
    /\ UNCHANGED <<snow, senv, sessRest>>

\* A tenth of a second passes in a timed wait that is not over
SessTick ==
    /\ snow < ChatEpoch + MaxSessClock
    /\ sess.phase \in {"ask", "letter", "letter_pause", "word_pause", "full_text",
                       "red", "got", "word_shown", "got_sleep"}
    /\ snow - sess.start < SessDuration(sess)
    /\ snow' = snow + 1
    /\ sess_step' = SessStep("tick", None, FALSE, FALSE, TRUE)
    /\ UNCHANGED <<sess, senv, sessRest>>

\* main.py, speak_word: a wait is over
MainPySpeakWord ==
    /\ sess.prog = "main"
    /\ sess.phase \in {"letter", "letter_pause", "word_shown"}
    /\ snow - sess.start >= MainPyDuration(sess.phase)
    /\ sess' = speak_word_step(sess, snow)
    /\ sess_step' = SessStep("speak_word", None, FALSE, FALSE, TRUE)
    /\ UNCHANGED <<snow, senv, sessRest>>

\* main.py: "GOT: ..." has been shown; protocol.start_speaking()
MainPyGotSlept ==
    /\ sess.prog = "main" /\ sess.phase = "got_sleep"
    /\ snow - sess.start >= GOT_SLEEP_TIME
    /\ sess' = MainPy_loop_top(
                  [sess EXCEPT !.protocol = TurnProtocol_start_speaking(@)], snow)
    /\ sess_step' = SessStep("got_slept", None, FALSE, FALSE, TRUE)
    /\ UNCHANGED <<snow, senv, sessRest>>

\* The waits of main.py whose loop compares the key with ESC (speak_word
\* lines 92-105); the other two waits are time.sleep calls
MainPyWaitChecksKey(phase) == phase \in {"letter", "letter_pause"}

\* main.py: ESC is pressed during a timed wait
MainPyKeyInWait ==
    /\ sess.prog = "main"
    /\ sess.phase \in {"letter", "letter_pause", "word_shown", "got_sleep"}
    /\ snow - sess.start < MainPyDuration(sess.phase)
    /\ senv.keys < MaxKeys
    /\ senv' = [senv EXCEPT !.keys = @ + 1]
    /\ sess' = IF MainPyWaitChecksKey(sess.phase) THEN MainPy_teardown(sess)
                                                 ELSE sess
    /\ sess_step' = SessStep("wait", SessView(sess), TRUE,
                             MainPyWaitChecksKey(sess.phase), TRUE)
    /\ UNCHANGED <<snow, sessRest>>

\* main.py: one pass of the DONE_SPEAKING wait loop
MainPyDoneLoop ==
    /\ sess.prog = "main" /\ sess.phase = "done_wait"
    /\ snow < ChatEpoch + MaxSessClock
    /\ snow' = snow + 1
    /\ \E ok \in BOOLEAN, key \in BOOLEAN :
          /\ ~ok => senv.fails < MaxReadFails
          /\ key => senv.keys < MaxKeys
          /\ senv' = [senv EXCEPT !.fails = IF ok THEN @ ELSE @ + 1,
                                  !.keys = IF key THEN @ + 1 ELSE @]
          /\ sess' = MainPy_done_loop_pass(sess, ok, key, snow)
          /\ sess_step' = SessStep("done_wait", SessView(sess), key, TRUE, ok)
    /\ UNCHANGED sessRest

\* main.py: one pass of the wait loop of the listening branch
MainPyWaitLoop ==
    /\ sess.prog = "main" /\ sess.phase = "wait_green"
    /\ snow < ChatEpoch + MaxSessClock
    /\ snow' = snow + 1
    /\ \E ok \in BOOLEAN, key \in BOOLEAN :
          LET border == ScreenAt(senv.screen, snow)[2] IN
          /\ ~ok => senv.fails < MaxReadFails
          /\ key => senv.keys < MaxKeys
          /\ senv' = [senv EXCEPT !.fails = IF ok THEN @ ELSE @ + 1,
                                  !.keys = IF key THEN @ + 1 ELSE @]
          /\ sess' = IF ok THEN MainPy_wait_loop_pass(sess, border, key, snow)
                           ELSE sess
          /\ sess_step' = SessStep("wait_loop", SessView(sess), key,
                                   ok /\ border \notin {"green", "red"}, ok)
    /\ UNCHANGED sessRest

\* main.py: one pass of listen_for_word's loop.  A failed read goes to the
\* next pass; RED ends the word; otherwise the classifier runs and may
\* raise, and the pass looks at the key.
MainPyListen ==
    /\ sess.prog = "main" /\ sess.phase = "listen_word"
    /\ snow < ChatEpoch + MaxSessClock
    /\ snow' = snow + 1
    /\ \E ok \in BOOLEAN, key \in BOOLEAN, esc \in BOOLEAN, raises \in BOOLEAN :
          LET border  == ScreenAt(senv.screen, snow)[2]
              best    == ScreenAt(senv.screen, snow)[3]
              presses == (IF key THEN 1 ELSE 0) + (IF esc THEN 1 ELSE 0)
              empty   == sess.recognizer.word_buffer = <<>>
          IN
          /\ ~ok => senv.fails < MaxReadFails
          /\ senv.keys + presses <= MaxKeys
          /\ senv' = [senv EXCEPT !.fails = IF ok THEN @ ELSE @ + 1,
                                  !.keys = @ + presses]
          /\ IF ~ok
             THEN /\ ~esc /\ ~raises
                  /\ sess' = sess
                  /\ sess_step' = SessStep("listen", SessView(sess), key, FALSE, FALSE)
             ELSE IF border = "red"
             THEN /\ ~key /\ ~raises /\ (esc => empty)
                  /\ sess' = listen_for_word_frame(sess, border, best, FALSE, esc, snow)
                  /\ sess_step' = SessStep("listen", SessView(sess), esc, empty, TRUE)
             ELSE IF raises
             THEN /\ ~key /\ ~esc
                  /\ sess' = MainPy_uncaught(sess)
                  /\ sess_step' = SessStep("classifier_raised", SessView(sess),
                                           FALSE, FALSE, TRUE)
             ELSE /\ esc => key
                  /\ sess' = listen_for_word_frame(sess, border, best, key, esc, snow)
                  /\ sess_step' = SessStep("listen", SessView(sess), key, TRUE, TRUE)
    /\ UNCHANGED sessRest

\* main.py: one pass of the idle branch
MainPyIdle ==
    /\ sess.prog = "main" /\ sess.phase = "idle"
    /\ snow < ChatEpoch + MaxSessClock
    /\ snow' = snow + 1
    /\ \E ok \in BOOLEAN, key \in BOOLEAN :
          LET border == ScreenAt(senv.screen, snow)[2] IN
          /\ ~ok => senv.fails < MaxReadFails
          /\ key => senv.keys < MaxKeys
          /\ senv' = [senv EXCEPT !.fails = IF ok THEN @ ELSE @ + 1,
                                  !.keys = IF key THEN @ + 1 ELSE @]
          /\ key => ok
          /\ sess' = MainPy_idle_pass(sess, ok, border, key, snow)
          /\ sess_step' = SessStep("idle", SessView(sess), key, TRUE, ok)
    /\ UNCHANGED sessRest

SessInitMain ==
    \E is_speaker_first \in BOOLEAN :
        sess = MainPy_loop_top(MainPy_start(is_speaker_first), ChatEpoch)

SessInit ==
    /\ snow = ChatEpoch
    /\ (SessInitChat \/ SessInitMain)
    /\ \E n \in 1..Len(SessScreens) : senv = [screen |-> n, fails |-> 0, keys |-> 0]
    /\ sess_step = SessStep("init", None, FALSE, FALSE, TRUE)
    /\ SessRestOff

SessNext ==
    \/ SessAskClaude
    \/ SessSpeakText
    \/ SessSignalDone
    \/ SessGotShown
    \/ SessKeyInWait
    \/ SessListen
    \/ SessInterrupt
    \/ SessTick
    \/ MainPySpeakWord
    \/ MainPyGotSlept
    \/ MainPyKeyInWait
    \/ MainPyDoneLoop
    \/ MainPyWaitLoop
    \/ MainPyListen
    \/ MainPyIdle

SpecSession == SessInit /\ [][SessNext]_vars

(***************************************************************************)
(* ask_claude of chat_claude_to_claude.py and of chat_with_claude.py.      *)
(* The claude CLI is an input: it is missing, fails, or runs for `runtime` *)
(* and prints `stdout`.                                                    *)
(***************************************************************************)
\* subprocess.run(["claude", "-p", prompt], capture_output=True, text=True,
\* timeout=30): what it raises, what it captured, and how long it took
subprocess_run(how, runtime, stdout) ==
    IF how # "ran"
    THEN [raised |-> how, stdout |-> <<>>, elapsed |-> 0]
    ELSE IF runtime > ASK_TIMEOUT
    THEN [raised |-> "TimeoutExpired", stdout |-> <<>>, elapsed |-> ASK_TIMEOUT]
    ELSE [raised |-> None, stdout |-> stdout, elapsed |-> runtime]

IsSpace(c) == c \in {" ", "\n"}

\* str.strip()
RECURSIVE str_strip(_)
str_strip(seq) ==
    IF seq = <<>> THEN <<>>
    ELSE IF IsSpace(seq[1]) THEN str_strip(Tail(seq))
    ELSE IF IsSpace(seq[Len(seq)]) THEN str_strip(SubSeq(seq, 1, Len(seq) - 1))
    ELSE seq

\* str.upper(), character by character
UpperChar(c) == IF c = "h" THEN "H" ELSE c

str_upper(seq) == [i \in 1..Len(seq) |-> UpperChar(seq[i])]

\* str.split(): the maximal runs without whitespace, in order; `cur` is the
\* run being read
RECURSIVE str_split_from(_, _)
str_split_from(seq, cur) ==
    IF seq = <<>>
    THEN IF cur = <<>> THEN <<>> ELSE <<cur>>
    ELSE IF IsSpace(seq[1])
    THEN (IF cur = <<>> THEN <<>> ELSE <<cur>>) \o str_split_from(Tail(seq), <<>>)
    ELSE str_split_from(Tail(seq), Append(cur, seq[1]))

str_split(seq) == str_split_from(seq, <<>>)

\* " ".join(words)
RECURSIVE str_join(_)
str_join(words) ==
    IF words = <<>> THEN <<>>
    ELSE IF Len(words) = 1 THEN words[1]
    ELSE words[1] \o <<" ">> \o str_join(Tail(words))

InLETTERSOrSpace(c) == c \in LETTERS \/ c = " "

DefaultMessage == <<"H", "I">>

\* ask_claude of chat_claude_to_claude.py that does not clean up the spaces.
ask_claude_noCleanUp(how, runtime, stdout) ==
    LET result   == subprocess_run(how, runtime, stdout)
        response == str_upper(str_strip(result.stdout))
        filtered == SelectSeq(response, InLETTERSOrSpace)
    IN [ret |-> IF result.raised # None THEN DefaultMessage
                ELSE IF filtered # <<>> THEN filtered ELSE DefaultMessage,
        elapsed |-> result.elapsed]

\* ask_claude of chat_claude_to_claude.py: what it returns and how long the
\* call took
ask_claude(how, runtime, stdout) ==
    LET result   == subprocess_run(how, runtime, stdout)
        response == str_upper(str_strip(result.stdout))
        filtered == str_join(str_split(SelectSeq(response, InLETTERSOrSpace)))
    IN [ret |-> IF result.raised # None THEN DefaultMessage
                ELSE IF filtered # <<>> THEN filtered ELSE DefaultMessage,
        elapsed |-> result.elapsed]

\* ask_claude of chat_with_claude.py: letters only, at most eight
with_claude_ask_claude(how, runtime, stdout) ==
    LET result   == subprocess_run(how, runtime, stdout)
        response == str_upper(str_strip(result.stdout))
        filtered == SelectSeq(response, InLETTERS)
    IN [ret |-> IF result.raised # None THEN DefaultMessage
                ELSE IF filtered # <<>>
                THEN SubSeq(filtered, 1, IF Len(filtered) < 8 THEN Len(filtered) ELSE 8)
                ELSE DefaultMessage,
        elapsed |-> result.elapsed]

\* All sequences over S of length at most n
SeqUpTo(S, n) == UNION {[1..k -> S] : k \in 0..n}

AskInit ==
    /\ fn_op = "init"
    /\ \E how \in {"ran", "FileNotFoundError", "Exception"},
          runtime \in AskRuntimes, stdout \in SeqUpTo(AskChars, MaxOut) :
          fn_in = [how |-> how, runtime |-> runtime, stdout |-> stdout]
    /\ fn_out = None
    /\ FnRestOff

AskClaude ==
    /\ fn_op' = "ask_claude"
    /\ fn_out' = ask_claude(fn_in.how, fn_in.runtime, fn_in.stdout)
    /\ UNCHANGED <<fn_in, fnRest>>

AskClaudeOfChatWithClaude ==
    /\ fn_op' = "chat_with_claude.ask_claude"
    /\ fn_out' = with_claude_ask_claude(fn_in.how, fn_in.runtime, fn_in.stdout)
    /\ UNCHANGED <<fn_in, fnRest>>

AskNext == AskClaude \/ AskClaudeOfChatWithClaude

SpecAsk == AskInit /\ [][AskNext]_vars

(***************************************************************************)
(* recognizer.py: detect_border_color, from the three ratios on.  A ratio  *)
(* is a whole number of percent.  The red hue ranges (0..10, 170..180) are *)
(* disjoint from the green (35..85) and the cyan (80..100) range, which    *)
(* overlap each other: a pixel counts for red or for green/cyan, and may   *)
(* count for both green and cyan.                                          *)
(***************************************************************************)
\* The keys of the dict `ratios`, in insertion order
RatioKeys == <<"green", "red", "cyan">>

\* max(ratios, key=ratios.get): the first key, in insertion order, whose
\* value no other value exceeds
max_key(ratios) ==
    LET i == CHOOSE k \in 1..Len(RatioKeys) :
                 /\ \A m \in 1..Len(RatioKeys) :
                        ratios[RatioKeys[m]] <= ratios[RatioKeys[k]]
                 /\ \A m \in 1..(k - 1) :
                        ratios[RatioKeys[m]] < ratios[RatioKeys[k]]
    IN RatioKeys[i]

\* detect_border_color that needs more than the minimum ratio.
detect_border_color_above(ratios) ==
    LET best == max_key(ratios) IN
    IF ratios[best] > BORDER_COLOR_MIN_RATIO THEN best ELSE None

\* detect_border_color that takes the last of several equal maxima.
detect_border_color_lastWins(ratios) ==
    LET i == CHOOSE k \in 1..Len(RatioKeys) :
                 /\ \A m \in 1..Len(RatioKeys) :
                        ratios[RatioKeys[m]] <= ratios[RatioKeys[k]]
                 /\ \A m \in (k + 1)..Len(RatioKeys) :
                        ratios[RatioKeys[m]] < ratios[RatioKeys[k]]
        best == RatioKeys[i]
    IN IF ratios[best] >= BORDER_COLOR_MIN_RATIO THEN best ELSE None

detect_border_color(ratios) ==
    LET threshold == BORDER_COLOR_MIN_RATIO
        best      == max_key(ratios)
    IN IF ratios[best] >= threshold THEN best ELSE None

BorderInit ==
    /\ fn_op = "init"
    /\ \E g \in Ratios, r \in Ratios, c \in Ratios :
          /\ r + g <= 100 /\ r + c <= 100
          /\ fn_in = [green |-> g, red |-> r, cyan |-> c]
    /\ fn_out = None
    /\ FnRestOff

\* A frame with the ratios fn_in is decoded; fn_out keeps the result of the
\* call and the result of the call before it
BorderDetect ==
    /\ fn_op' = "detect_border_color"
    /\ fn_out' = [ret |-> detect_border_color(fn_in),
                  before |-> IF fn_op = "init" THEN <<>> ELSE <<fn_out.ret>>]
    /\ UNCHANGED <<fn_in, fnRest>>

BorderNext == BorderDetect

SpecBorder == BorderInit /\ [][BorderNext]_vars

(***************************************************************************)
(* chat_live.py: the chat process and the responder, which answers by      *)
(* writing /tmp/asl_response.  Every call of the file system is one step;  *)
(* the responder's write is one step as well, and may come between any two *)
(* steps of the chat process.                                              *)
(***************************************************************************)
\* /tmp/asl_response when it does not exist
NoFile == [exists |-> FALSE, id |-> 0, text |-> <<>>]

\* os.remove(RESPONSE_FILE) by the chat process: the harness notes the
\* removal of a response the process has not read
Live_remove_log(log, file) ==
    IF file.exists /\ file.id \notin log.read
    THEN [log EXCEPT !.lost = Append(@, file.id)]
    ELSE log

\* `with open(RESPONSE_FILE) as f: response = f.read().strip().upper()`
Live_read(lv, file) ==
    [lv EXCEPT !.response = str_upper(str_strip(file.text)),
               !.response_id = file.id]

\* `"".join(c for c in response if c in config.LETTERS)`
Live_valid(response) == SelectSeq(response, InLETTERS)

\* display_response(display, word): the response goes on the screen
display_response(lv) == [lv EXCEPT !.displayed = Append(@, lv.response_id)]

\* cleanup(), up to the exists-check of RESPONSE_FILE: INPUT_FILE is removed
cleanup_enter(lv, ending) ==
    [lv EXCEPT !.pc = "cleanup_exists", !.ending = ending, !.input_file = None]

LiveInit ==
    /\ live = cleanup_enter(
                 [pc |-> "main", caller |-> None, response |-> <<>>,
                  response_id |-> 0, displayed |-> <<>>, input_file |-> None,
                  ending |-> FALSE], FALSE)
    /\ response_file = NoFile
    /\ live_log = [written |-> 0, read |-> {}, lost |-> <<>>]
    /\ LiveRestOff

\* The responder writes a response, over the one in the file if there is one
LiveResponderWrites ==
    /\ live_log.written < MaxResponses
    /\ \E text \in LiveTexts :
          response_file' = [exists |-> TRUE, id |-> live_log.written + 1,
                            text |-> text]
    /\ live_log' = [live_log EXCEPT !.written = @ + 1]
    /\ UNCHANGED <<live, liveRest>>

\* cleanup: os.path.exists(RESPONSE_FILE)
LiveCleanupExists ==
    /\ live.pc = "cleanup_exists"
    /\ live' = [live EXCEPT !.pc = IF response_file.exists THEN "cleanup_remove"
                                   ELSE IF live.ending THEN "done"
                                   ELSE "start_exists"]
    /\ UNCHANGED <<response_file, live_log, liveRest>>

\* cleanup: os.remove(RESPONSE_FILE)
LiveCleanupRemove ==
    /\ live.pc = "cleanup_remove"
    /\ response_file' = NoFile
    /\ live_log' = Live_remove_log(live_log, response_file)
    /\ live' = [live EXCEPT !.pc = IF live.ending THEN "done" ELSE "start_exists"]
    /\ UNCHANGED liveRest

\* main before its loop: `if os.path.exists(RESPONSE_FILE)`
LiveStartExists ==
    /\ live.pc = "start_exists"
    /\ live' = IF response_file.exists
               THEN [live EXCEPT !.pc = "wait_exists", !.caller = "start"]
               ELSE [live EXCEPT !.pc = "loop_exists"]
    /\ UNCHANGED <<response_file, live_log, liveRest>>

\* wait_for_response: one pass of the polling loop.  Without a file the
\* function goes on polling, or returns None on Q/ESC or after the timeout,
\* and main goes to the head of its loop
LiveWaitExists ==
    /\ live.pc = "wait_exists"
    /\ live' = IF response_file.exists
               THEN [live EXCEPT !.pc = "wait_read"]
               ELSE [live EXCEPT !.pc = "loop_exists", !.caller = None]
    /\ UNCHANGED <<response_file, live_log, liveRest>>

\* wait_for_response: the file is read
LiveWaitRead ==
    /\ live.pc = "wait_read"
    /\ live' = [Live_read(live, response_file) EXCEPT !.pc = "wait_remove"]
    /\ live_log' = [live_log EXCEPT !.read = @ \cup {response_file.id}]
    /\ UNCHANGED <<response_file, liveRest>>

\* wait_for_response: the file is removed and the function returns; main
\* displays the response, before the loop as it is, in the loop what is
\* left of it in config.LETTERS; `quit` is Q/ESC during display_response
LiveWaitRemove ==
    /\ live.pc = "wait_remove"
    /\ response_file' = NoFile
    /\ live_log' = Live_remove_log(live_log, response_file)
    /\ \E quit \in BOOLEAN :
          LET shown == IF live.caller = "start" THEN live.response
                       ELSE Live_valid(live.response)
              lv    == [live EXCEPT !.caller = None]
          IN live' = IF shown = <<>>
                     THEN [lv EXCEPT !.pc = "loop_exists"]
                     ELSE IF quit /\ live.caller # "start"
                     THEN cleanup_enter(display_response(lv), TRUE)
                     ELSE [display_response(lv) EXCEPT !.pc = "loop_exists"]
    /\ UNCHANGED liveRest

\* main, the head of its loop: `if os.path.exists(RESPONSE_FILE)`
LiveLoopExists ==
    /\ live.pc = "loop_exists"
    /\ live' = [live EXCEPT !.pc = IF response_file.exists THEN "loop_read"
                                   ELSE "loop_rest"]
    /\ UNCHANGED <<response_file, live_log, liveRest>>

\* main: the file is read
LiveLoopRead ==
    /\ live.pc = "loop_read"
    /\ live' = [Live_read(live, response_file) EXCEPT !.pc = "loop_remove"]
    /\ live_log' = [live_log EXCEPT !.read = @ \cup {response_file.id}]
    /\ UNCHANGED <<response_file, liveRest>>

\* main: the file is removed and a valid response is displayed
LiveLoopRemove ==
    /\ live.pc = "loop_remove"
    /\ response_file' = NoFile
    /\ live_log' = Live_remove_log(live_log, response_file)
    /\ \E quit \in BOOLEAN :
          live' = IF Live_valid(live.response) = <<>>
                  THEN [live EXCEPT !.pc = "loop_rest"]
                  ELSE IF quit
                  THEN cleanup_enter(display_response(live), TRUE)
                  ELSE [display_response(live) EXCEPT !.pc = "loop_rest"]
    /\ UNCHANGED liveRest

\* main, the rest of a pass of its loop: the frame and the key.  Q/ESC
\* writes QUIT to INPUT_FILE and leaves the loop; SPACE with a word in the
\* buffer writes the word and calls wait_for_response; anything else goes to
\* the next pass
LiveLoopRest ==
    /\ live.pc = "loop_rest"
    /\ \E key \in {"q", " ", None} :
          live' = CASE key = "q" ->
                         cleanup_enter([live EXCEPT !.input_file = "QUIT"], TRUE)
                    [] key = " " ->
                         [live EXCEPT !.input_file = "word",
                                      !.pc = "wait_exists", !.caller = "space"]
                    [] OTHER -> [live EXCEPT !.pc = "loop_exists"]
    /\ UNCHANGED <<response_file, live_log, liveRest>>

LiveNext ==
    \/ LiveResponderWrites
    \/ LiveCleanupExists
    \/ LiveCleanupRemove
    \/ LiveStartExists
    \/ LiveWaitExists
    \/ LiveWaitRead
    \/ LiveWaitRemove
    \/ LiveLoopExists
    \/ LiveLoopRead
    \/ LiveLoopRemove
    \/ LiveLoopRest

SpecLive == LiveInit /\ [][LiveNext]_vars

(***************************************************************************)
(* Claims about the LetterAccumulator (checked under SpecAcc).             *)
(***************************************************************************)
\* What the run-length law says of an accumulator a and its last return
\* value out after n present inputs of symbol s since the reset state.
RunLaw(a, out, s, n) ==
    LET hit == n % a.required_frames = 0 IN
    /\ out = (IF hit THEN s ELSE None)
    /\ a.count = n % a.required_frames
    /\ a.current_letter = (IF hit THEN None ELSE s)

\* C1: from the reset state, feeding one symbol on consecutive update calls
\* (no absent input) returns it exactly on calls N, 2N, ... and None on every
\* other call; a confirming call leaves candidate None and count 0, and the
\* call after it starts a fresh count of 1.
C1_RunLengthLaw ==
    (acc_op = "update" /\ run_ok /\ run_nones = 0 /\ run_len >= 1) =>
        /\ RunLaw(accumulator, acc_out, run_sym, run_len)
        /\ RunLaw(mp_accumulator, mp_out, run_sym, run_len)

\* The 9th identical input with required_frames = 8: the 8th call confirmed
\* and cleared, the 9th only starts a fresh count.
C1_Witness ==
    /\ acc_op = "update" /\ run_ok /\ run_nones = 0 /\ run_len = 9
    /\ accumulator.required_frames = 8
    /\ acc_prev.confirmed_letter = run_sym
    /\ acc_prev.count = 0 /\ acc_prev.current_letter = None
    /\ acc_out = None /\ accumulator.count = 1

\* C2: a run of at most max_gap consecutive absent inputs leaves the candidate
\* and the match count unchanged, so a same-symbol run interrupted only by
\* such gaps confirms exactly on its N-th, 2N-th, ... present input (with
\* N = 8, G = 3: A,A,A,None,None,A,A,A,A,A confirms once, on the last call);
\* a run of more than max_gap absent inputs clears candidate and count, and
\* the next present input starts again at count 1.
C2_GapTolerance ==
    acc_op = "update" =>
        /\ none_run = accumulator.gap /\ none_run = mp_accumulator.gap
        /\ (acc_in = None /\ none_run <= accumulator.max_gap) =>
               /\ accumulator.current_letter = acc_prev.current_letter
               /\ accumulator.count = acc_prev.count
               /\ mp_accumulator.current_letter = mp_prev.current_letter
               /\ mp_accumulator.count = mp_prev.count
               /\ acc_out = None /\ mp_out = None
        /\ (acc_in = None /\ none_run > accumulator.max_gap) =>
               /\ accumulator.current_letter = None /\ accumulator.count = 0
               /\ mp_accumulator.current_letter = None /\ mp_accumulator.count = 0
               /\ acc_out = None /\ mp_out = None
        /\ (acc_in # None /\ acc_prev.gap > acc_prev.max_gap) =>
               IF accumulator.required_frames = 1
               THEN acc_out = acc_in /\ mp_out = acc_in
               ELSE /\ accumulator.current_letter = acc_in /\ accumulator.count = 1
                    /\ mp_accumulator.current_letter = acc_in
                    /\ mp_accumulator.count = 1
                    /\ acc_out = None /\ mp_out = None
        /\ (run_ok /\ run_len >= 1 /\ acc_in # None) =>
               /\ RunLaw(accumulator, acc_out, run_sym, run_len)
               /\ RunLaw(mp_accumulator, mp_out, run_sym, run_len)

\* Eight A's with one gap of two absent inputs, required_frames = 8 and
\* max_gap = 3: the tenth call confirms A, and no earlier call did.
C2_Witness ==
    /\ acc_op = "update" /\ run_ok /\ run_sym = "A" /\ run_len = 8
    /\ run_nones = 2 /\ run_maxgap = 2
    /\ accumulator.required_frames = 8 /\ accumulator.max_gap = 3
    /\ acc_out = "A" /\ mp_out = "A"

\* C3 as stated: after every update the match count is 0 whenever the call
\* changed the candidate or returned a confirmation, and the gap counter is 0
\* whenever the input was a symbol.
C3_Original ==
    acc_op = "update" =>
        /\ (accumulator.current_letter # acc_prev.current_letter \/ acc_out # None)
              => accumulator.count = 0
        /\ (mp_accumulator.current_letter # mp_prev.current_letter \/ mp_out # None)
              => mp_accumulator.count = 0
        /\ acc_in # None => (accumulator.gap = 0 /\ mp_accumulator.gap = 0)

\* C3 amended: after every update the match count is 0 whenever the call
\* returned a confirmation or left the candidate null, it is 1 whenever the
\* call replaced the candidate by a different symbol without confirming, and
\* the gap counter is 0 whenever the input was a symbol.
C3_CountOnCandidateChange ==
    acc_op = "update" =>
        /\ (acc_out # None \/ accumulator.current_letter = None)
              => accumulator.count = 0
        /\ (mp_out # None \/ mp_accumulator.current_letter = None)
              => mp_accumulator.count = 0
        /\ (accumulator.current_letter # acc_prev.current_letter
              /\ accumulator.current_letter # None) => accumulator.count = 1
        /\ (mp_accumulator.current_letter # mp_prev.current_letter
              /\ mp_accumulator.current_letter # None) => mp_accumulator.count = 1
        /\ acc_in # None => (accumulator.gap = 0 /\ mp_accumulator.gap = 0)

\* An update that replaces candidate A by B after a gap, leaving count 1 and
\* gap 0.
C3_Witness ==
    /\ acc_op = "update" /\ acc_in = "B"
    /\ acc_prev.current_letter = "A" /\ acc_prev.gap > 0
    /\ accumulator.current_letter = "B" /\ accumulator.count = 1
    /\ accumulator.gap = 0
    /\ mp_accumulator.current_letter = "B" /\ mp_accumulator.count = 1

(***************************************************************************)
(* Claims about the sentence assembler (checked under SpecAsm).            *)
(***************************************************************************)
\* The text a stream of confirmed symbols and long-gap marks (" ") stands
\* for: a symbol equal to the last character is dropped, and so is a mark at
\* the start or after a space.
RECURSIVE Dedup(_)
Dedup(ev) ==
    IF ev = <<>> THEN <<>>
    ELSE LET d == Dedup(SubSeq(ev, 1, Len(ev) - 1))
             x == ev[Len(ev)]
         IN IF d # <<>> /\ d[Len(d)] = x THEN d
            ELSE IF d = <<>> /\ x = " " THEN d
            ELSE Append(d, x)

IsLetter(c) == c # " "

\* C4: a confirmed symbol is appended only if the buffer is empty or its last
\* character differs from it; the buffer is the confirmed stream with
\* repeats dropped and one space per hand-absent gap of SPACE_GAP_FRAMES
\* ticks, so H,E,L,L,O without such a gap gives "HELO" and with one between
\* the two L's gives "HEL LO".
C4_DuplicateSuppression ==
    /\ (asm_op = "detect" /\ asm_confirmed # None) =>
           sentence = (IF asm_prev = <<>> \/ LastOf(asm_prev) # asm_confirmed
                       THEN Append(asm_prev, asm_confirmed)
                       ELSE asm_prev)
    /\ events_ok =>
           /\ SelectSeq(events, IsLetter) = recognizer.word_buffer
           /\ sentence = Dedup(events)
    /\ (events_ok /\ events = <<"H", "E", "L", "L", "O">>) =>
           sentence = <<"H", "E", "L", "O">>
    /\ (events_ok /\ events = <<"H", "E", "L", " ", "L", "O">>) =>
           sentence = <<"H", "E", "L", " ", "L", "O">>

\* listen_for_sentence has confirmed H,E,L,L,O with no long gap and holds
\* "HELO".
C4_Witness ==
    /\ asm_prog = "listen_for_sentence" /\ events_ok
    /\ recognizer.word_buffer = <<"H", "E", "L", "L", "O">>
    /\ events = <<"H", "E", "L", "L", "O">>
    /\ sentence = <<"H", "E", "L", "O">>

\* C5: in every reachable state of the sentence buffer, also after the clear
\* and backspace keys of the test tool, no two adjacent characters are both
\* spaces and no two adjacent characters are the same letter.
C5_NoAdjacentRepeat ==
    \A i \in 1..(Len(sentence) - 1) : sentence[i] # sentence[i + 1]

\* In the test tool, after a backspace, the letter now last in the buffer is
\* confirmed again and is not appended.
C5_Witness ==
    /\ asm_prog = "test_tool" /\ ~events_ok
    /\ asm_op = "detect" /\ asm_confirmed # None
    /\ asm_prev # <<>> /\ LastOf(asm_prev) = asm_confirmed
    /\ sentence = asm_prev

(***************************************************************************)
(* Claims about the chat of two agents (checked under SpecChat).           *)
(***************************************************************************)
\* The agent shows letters, pauses or the full text with GREEN, or RED.
InSpeakingPhase(a) ==
    agents[a].phase \in {"letter", "letter_pause", "word_pause", "full_text", "red"}

\* The agent is on the screen with content of a message: a letter, a pause
\* between letters or words, or the full text.
ProducingContent(a) ==
    agents[a].phase \in {"letter", "letter_pause", "word_pause", "full_text"}

\* C7: an agent that reads a frame decoded as RED in its listening phase
\* takes the turn, whatever it observed before and also with an empty
\* message buffer: it has left listening and is on its way to speak.
C7_RedTakesTurnInChat ==
    \A a \in Agents :
        agents[a].event \in {"red", "red_empty"} =>
            agents[a].phase \in {"got", "ask"}

\* C8: the two agents are never both in the listening phase with empty
\* message buffers while neither renders GREEN or RED.
C8_NoDeadlock ==
    ~ \A a \in Agents :
          /\ agents[a].phase = "listen"
          /\ agents[a].sentence = <<>>
          /\ agents[a].color \notin {"green", "red"}

\* C9: the two agents are never both in their speaking phase, and a listener
\* whose message is finalized by the silence timeout does so only after its
\* peer has stopped producing content.
C9_OneSpeakerAtATime ==
    /\ ~ (InSpeakingPhase("speaker") /\ InSpeakingPhase("listener"))
    /\ \A a \in Agents :
          agents[a].event = "timeout" => ~ ProducingContent(Peer(a))

(***************************************************************************)
(* Claims about the TurnProtocol (checked under SpecTurn).                 *)
(***************************************************************************)
\* C6: update with RED in LISTENING sets the state to SPEAKING and returns
\* 'turn_received' whether or not a GREEN was seen earlier in the listening
\* period, and the listening wait loop of main.py sets the state to SPEAKING
\* on the frame that decodes as RED.
C6_RedTakesTurn ==
    /\ (tp_op = "update" /\ tp_sig = "red" /\ tp_prev = LISTENING) =>
           (tp_state = SPEAKING /\ tp_event = "turn_received")
    /\ (tp_op = "wait_loop" /\ tp_sig = "red") => tp_state = SPEAKING

\* RED arrives in a listening period in which no GREEN was seen.
C6_Witness ==
    /\ tp_op = "update" /\ tp_sig = "red" /\ tp_prev = LISTENING
    /\ ~tp_prev_green
    /\ tp_state = SPEAKING /\ tp_event = "turn_received"

\* C10 as stated: finish_speaking() at t0 leaves DONE_SPEAKING with t0
\* recorded, and an update at time t in DONE_SPEAKING, for any signal, moves
\* to LISTENING with 'done_timeout' iff t - t0 >= done_duration and otherwise
\* stays in DONE_SPEAKING with no event.
C10_Original ==
    /\ tp_op = "finish_speaking" =>
           (tp_state = DONE_SPEAKING /\ tp_done_time = tp_at)
    /\ (tp_op = "update" /\ tp_prev = DONE_SPEAKING) =>
           IF tp_at - tp_done_time >= done_duration
           THEN tp_state = LISTENING /\ tp_event = "done_timeout"
           ELSE tp_state = DONE_SPEAKING /\ tp_event = None

\* C10 amended: the same with the switch iff t - t0 > done_duration.
C10_DoneTimeoutStrict ==
    /\ tp_op = "finish_speaking" =>
           (tp_state = DONE_SPEAKING /\ tp_done_time = tp_at)
    /\ (tp_op = "update" /\ tp_prev = DONE_SPEAKING) =>
           IF tp_at - tp_done_time > done_duration
           THEN tp_state = LISTENING /\ tp_event = "done_timeout"
           ELSE tp_state = DONE_SPEAKING /\ tp_event = None

\* An update exactly done_duration after finish_speaking() that holds the
\* state, with a signal present.
C10_Witness ==
    /\ tp_op = "update" /\ tp_prev = DONE_SPEAKING /\ tp_sig = "cyan"
    /\ tp_at - tp_done_time = done_duration
    /\ tp_state = DONE_SPEAKING /\ tp_event = None

C12_Original ==
    (tp_op = "update" /\ tp_sig = None) =>
        (tp_state = tp_prev /\ tp_event = None)

\* C12 amended: update with no decoded signal holds the state and returns no
\* event, except in DONE_SPEAKING once more than done_duration has passed
\* since finish_speaking(), where it moves to LISTENING with 'done_timeout'.
C12_NoneHoldsState ==
    (tp_op = "update" /\ tp_sig = None) =>
        IF /\ tp_prev = DONE_SPEAKING
           /\ tp_done_time # NoTime /\ tp_at - tp_done_time > done_duration
        THEN tp_state = LISTENING /\ tp_event = "done_timeout"
        ELSE tp_state = tp_prev /\ tp_event = None

\* An update with no signal in LISTENING has held the state.
C12_Witness ==
    /\ tp_op = "update" /\ tp_sig = None /\ tp_prev = LISTENING
    /\ tp_state = LISTENING /\ tp_event = None

(***************************************************************************)
(* Claims about the recognizers (checked under SpecRec).                   *)
(***************************************************************************)
\* C15: get_word() of ASLRecognizer and of MediaPipeRecognizer returns the
\* accumulated confirmed letters and clears the buffer and the accumulator,
\* so a second consecutive get_word() returns the empty string.
C15_GetWordClears ==
    rec_op = "get_word" =>
        /\ rec_ret = rec_before.word_buffer
        /\ mp_rec_ret = mp_rec_before.word_buffer
        /\ rec = ASLRecognizer_init /\ mp_rec = MediaPipeRecognizer_init
        /\ rec_prev_op = "get_word" => (rec_ret = <<>> /\ mp_rec_ret = <<>>)

\* A get_word() that returned two letters, followed by a second get_word()
\* that returned none.
C15_Witness ==
    /\ rec_op = "get_word" /\ rec_prev_op = "get_word"
    /\ rec_prev_ret = <<"A", "B">>
    /\ rec_ret = <<>> /\ mp_rec_ret = <<>>

(***************************************************************************)
(* Claims about one process of chat_claude_to_claude.py or of main.py      *)
(* (checked under SpecSession).                                            *)
(***************************************************************************)
\* The last step was a pass of listen_for_sentence's loop that read a frame
\* without the RED border, so that it reached the silence-timeout check; the
\* pass ran one tick before snow.
C13_CheckRan ==
    /\ sess.prog = "chat_claude_to_claude"
    /\ sess_step.op = "listen" /\ sess_step.ok
    /\ ScreenAt(senv.screen, snow - 1)[2] # "red"

C13_Silence == (snow - 1) - sess_step.prev.last_letter_time

C13_Done == sess.phase = "got" /\ sess.event = "timeout"

\* C13 as stated: the silence-timeout check reports the message done at time
\* now if and only if the buffer is non-empty and now minus the time of the
\* last confirmed symbol exceeds the timeout.
C13_Original ==
    C13_CheckRan =>
        (C13_Done <=> /\ sess_step.prev.sentence # <<>>
                      /\ sess_step.prev.last_letter_time # NoTime
                      /\ C13_Silence > SENTENCE_DONE_TIMEOUT)

\* C13 amended: the silence-timeout check reports the message done at time
\* now if and only if the buffer is non-empty and now minus the time of the
\* last confirmed symbol is at least the timeout; with a timeout of 3.0 it
\* reports not done 2.9 s after the last confirmation and done from 3.0 s on.
C13_SilenceTimeout ==
    C13_CheckRan =>
        /\ C13_Done <=> /\ sess_step.prev.sentence # <<>>
                        /\ sess_step.prev.last_letter_time # NoTime
                        /\ C13_Silence >= SENTENCE_DONE_TIMEOUT
        /\ (sess_step.prev.sentence # <<>> /\ C13_Silence = SENTENCE_DONE_TIMEOUT - 1)
              => ~C13_Done
        /\ (sess_step.prev.sentence # <<>> /\ C13_Silence >= SENTENCE_DONE_TIMEOUT)
              => C13_Done

\* The check has reported done on a sentence whose last letter was confirmed
\* more than the timeout ago (the pass before it failed to read a frame).
C13_Witness ==
    /\ C13_CheckRan /\ C13_Done
    /\ sess_step.prev.sentence # <<>>
    /\ C13_Silence > SENTENCE_DONE_TIMEOUT

\* C16: every pass of every hold, wait and poll loop of the speaking,
\* done-signalling and listening phases checks the cancel key: a Q/ESC
\* pressed during a pass is looked at by that pass.
C16_EveryWaitChecksKey == sess_step.key => sess_step.checked

\* C17: a cancel key observed in any phase ends the session: the main loop
\* exits, no further turn is started and the history so far is reported.
C17_CancelEndsSession ==
    (sess_step.key /\ sess_step.checked) =>
        (sess.phase = "exited" /\ sess.reported = SessHistory(sess))

\* C18: on every exit path of a session (completion, cancellation, an error
\* raised inside the loop) the camera and the display are both released
\* exactly once before the process ends.
C18_ReleasedOnEveryExit ==
    sess.phase \in {"exited", "crashed"} =>
        (sess.cap_released = 1 /\ sess.display_closed = 1)

\* C14: in every orchestrator's listening phase, once a symbol has been
\* confirmed into the incoming message, a pass that reads a frame without RED
\* when the time since the last confirmed symbol has reached the sentence
\* timeout finalizes the message and hands it off.
C14_SilenceEndsListening ==
    (/\ sess_step.op = "listen" /\ sess_step.ok
     /\ ScreenAt(senv.screen, snow - 1)[2] # "red"
     /\ sess_step.prev.sentence # <<>>
     /\ sess_step.prev.last_letter_time # NoTime
     /\ (snow - 1) - sess_step.prev.last_letter_time >= SENTENCE_DONE_TIMEOUT)
    => (/\ sess.phase \in {"got", "got_sleep"}
        /\ SessHistory(sess) # sess_step.prev.history)

\* What a tick with a failed read is said to leave alone: turn state, message
\* buffer, no-presence counter, space flag, accumulator, silence timer and
\* history.
C19_Core(v) ==
    [turn |-> v.turn, sentence |-> v.sentence,
     no_hand_frames |-> v.no_hand_frames, space_inserted |-> v.space_inserted,
     accumulator |-> v.accumulator, last_letter_time |-> v.last_letter_time,
     history |-> v.history]

\* C19 as stated: a tick on which the camera read fails leaves the core state
\* unchanged in every loop that reads frames.
C19_Original ==
    ~sess_step.ok => C19_Core(SessView(sess)) = C19_Core(sess_step.prev)

\* C19 amended: a tick on which the camera read fails leaves the core state
\* unchanged in the listening loops, the wait loop and the idle branch; in
\* the DONE_SPEAKING wait loop of main.py protocol.update() still runs on
\* that tick, and once more than done_duration has passed since
\* finish_speaking() it moves the turn state to LISTENING, with everything
\* else unchanged.
C19_FailedReadKeepsState ==
    ~sess_step.ok =>
        IF /\ sess_step.op = "done_wait"
           /\ sess_step.prev.done_time # NoTime
           /\ (snow - 1) - sess_step.prev.done_time > done_duration
        THEN C19_Core(SessView(sess)) =
                [C19_Core(sess_step.prev) EXCEPT !.turn = LISTENING]
        ELSE C19_Core(SessView(sess)) = C19_Core(sess_step.prev)

\* A pass of the DONE_SPEAKING wait loop whose read failed has moved the
\* turn state from DONE_SPEAKING to LISTENING.
C19_Witness ==
    /\ sess_step.op = "done_wait" /\ ~sess_step.ok
    /\ sess_step.prev.turn = DONE_SPEAKING
    /\ SessView(sess).turn = LISTENING

\* C20: a classifier exception on a listening tick counts as no symbol: the
\* listening loop goes on, buffer and history are unchanged and the session
\* does not end.
C20_ClassifierErrorIsNoSymbol ==
    sess_step.op = "classifier_raised" =>
        /\ sess.phase = "listen"
        /\ sess.sentence = sess_step.prev.sentence
        /\ sess.history = sess_step.prev.history

\* How many (sent, ...) entries a history holds
CountSent(h) == Cardinality({i \in 1..Len(h) : h[i][1] = "sent"})

\* C21: the history holds a (sent, text) entry exactly once for each send
\* that completed and none for a send that was cancelled before it completed:
\* when Q/ESC stops speak_text, the reported history counts one sent entry
\* fewer than the rounds that were started.
C21_NoEntryForCancelledSend ==
    (/\ sess.prog = "chat_claude_to_claude"
     /\ sess_step.op = "wait" /\ sess_step.key /\ sess_step.checked)
    => (/\ sess.phase = "exited"
        /\ CountSent(sess.reported) = sess.rounds - 1)

\* C22: ConversationManager.get_history returns the sent and received words
\* in the order in which the sends and receives happened, for an agent that
\* spoke first and for one that listened first.
C22_HistoryInOrder ==
    sess.prog = "main" => ConversationManager_get_history(sess) = sess.history

\* C23: in chat_claude_to_claude the round counter never exceeds --rounds,
\* the history never holds more than --rounds sent entries, and when the
\* last permitted speaking round has completed the loop ends without another
\* listening turn.
C23_RoundsBounded ==
    sess.prog = "chat_claude_to_claude" =>
        /\ sess.rounds <= sess.limit
        /\ CountSent(sess.history) <= sess.limit
        /\ (sess_step.op = "signal_done" /\ sess.rounds = sess.limit)
              => (sess.phase = "exited" /\ sess.reported = sess.history)

\* The last permitted round has completed with signal_done and the process
\* has ended with as many sent entries as --rounds allows.
C23_Witness ==
    /\ sess.prog = "chat_claude_to_claude"
    /\ sess_step.op = "signal_done" /\ sess.rounds = sess.limit
    /\ sess.phase = "exited" /\ CountSent(sess.reported) = sess.limit

(***************************************************************************)
(* Claims about ask_claude (checked under SpecAsk).                        *)
(***************************************************************************)
\* The output of the claude CLI holds a letter of config.LETTERS
C24_HasValidChar ==
    \E i \in 1..Len(fn_in.stdout) : UpperChar(fn_in.stdout[i]) \in LETTERS

\* C24: ask_claude returns within its bounded wait, and what it returns is a
\* non-empty string of letters of config.LETTERS and single interior spaces;
\* on timeout, missing executable, any other exception, or output without a
\* valid character it returns "HI".
C24_AskClaudeSafeDefault ==
    fn_op \in {"ask_claude", "chat_with_claude.ask_claude"} =>
        LET r == fn_out.ret IN
        /\ fn_out.elapsed <= ASK_TIMEOUT
        /\ r # <<>>
        /\ \A i \in 1..Len(r) : r[i] \in LETTERS \/ r[i] = " "
        /\ r[1] # " " /\ r[Len(r)] # " "
        /\ \A i \in 1..(Len(r) - 1) : ~(r[i] = " " /\ r[i + 1] = " ")
        /\ (\/ fn_in.how # "ran"
            \/ fn_in.runtime > ASK_TIMEOUT
            \/ ~C24_HasValidChar) => r = DefaultMessage

\* ask_claude has turned the output "h", two spaces, "I" into "H I".
C24_Witness ==
    /\ fn_op = "ask_claude"
    /\ fn_in.how = "ran" /\ fn_in.runtime <= ASK_TIMEOUT
    /\ fn_in.stdout = <<"h", " ", " ", "I">>
    /\ fn_out.ret = <<"H", " ", "I">>

(***************************************************************************)
(* Claims about the space of the sentence assembler (checked under         *)
(* SpecAsm).                                                               *)
(***************************************************************************)
\* The last classifier tick appended a space
C25_SpaceAppended ==
    /\ asm_op = "detect"
    /\ Len(sentence) = Len(asm_prev) + 1
    /\ LastOf(sentence) = " "

MaxRatio ==
    CHOOSE m \in {fn_in.green, fn_in.red, fn_in.cyan} :
        \A x \in {fn_in.green, fn_in.red, fn_in.cyan} : x <= m

\* C26: detect_border_color returns GREEN when the green ratio is at least
\* the minimum ratio and the red and cyan ratios are below it, NONE when all
\* three are below it, and in general the colour with the highest ratio if
\* and only if that ratio is at least the minimum ratio.
C26_DecodeByRatio ==
    fn_op = "detect_border_color" =>
        /\ (/\ fn_in.green >= BORDER_COLOR_MIN_RATIO
            /\ fn_in.red < BORDER_COLOR_MIN_RATIO
            /\ fn_in.cyan < BORDER_COLOR_MIN_RATIO) => fn_out.ret = "green"
        /\ MaxRatio < BORDER_COLOR_MIN_RATIO => fn_out.ret = None
        /\ fn_out.ret # None <=> MaxRatio >= BORDER_COLOR_MIN_RATIO
        /\ fn_out.ret # None => fn_in[fn_out.ret] = MaxRatio

\* A frame with exactly the minimum ratio of green and less of red and cyan
\* was decoded as green.
C26_Witness ==
    /\ fn_op = "detect_border_color"
    /\ fn_in.green = BORDER_COLOR_MIN_RATIO
    /\ fn_in.red = 29 /\ fn_in.cyan = 29
    /\ fn_out.ret = "green"

\* C27: detect_border_color is deterministic: a second call with the same
\* ratios returns the same signal, and when two or three colours tie for the
\* highest ratio at or above the threshold the result is fixed by the
\* priority green, then red, then cyan.
C27_TieBreakByPriority ==
    fn_op = "detect_border_color" =>
        /\ fn_out.before # <<>> => fn_out.before[1] = fn_out.ret
        /\ MaxRatio >= BORDER_COLOR_MIN_RATIO =>
              fn_out.ret = (IF fn_in.green = MaxRatio THEN "green"
                            ELSE IF fn_in.red = MaxRatio THEN "red"
                            ELSE "cyan")

\* Red and cyan tied above the threshold, green below them: a second call
\* returned red again.
C27_Witness ==
    /\ fn_op = "detect_border_color"
    /\ fn_in.red = 40 /\ fn_in.cyan = 40 /\ fn_in.green = 10
    /\ fn_out.before = <<"red">> /\ fn_out.ret = "red"

\* C28: TurnProtocol.get_border_color maps each state to exactly one colour:
\* SPEAKING to green, DONE_SPEAKING to red, LISTENING to cyan and every other
\* state (IDLE, WAITING_FOR_TURN) to gray; the call leaves the state as it
\* was.
C28_BorderColorOfState ==
    tp_op = "get_border_color" =>
        /\ tp_state = tp_prev
        /\ tp_state = SPEAKING => tp_event = "green"
        /\ tp_state = DONE_SPEAKING => tp_event = "red"
        /\ tp_state = LISTENING => tp_event = "cyan"
        /\ tp_state \in {IDLE, WAITING_FOR_TURN} => tp_event = "gray"

\* get_border_color was called on a waiting protocol and returned gray.
C28_Witness ==
    /\ tp_op = "get_border_color"
    /\ tp_state = WAITING_FOR_TURN /\ tp_prev = WAITING_FOR_TURN
    /\ tp_event = "gray"

(***************************************************************************)
(* Claims about main.py's turn taking and word buffer (SpecSession).       *)
(***************************************************************************)
\* The last step was a pass of main.py's wait loop that read a RED frame
\* and so set protocol.state = State.SPEAKING.
MainPyClaimedTurnOnRed ==
    /\ sess.prog = "main"
    /\ sess_step.op = "wait_loop" /\ sess_step.ok
    /\ ~sess_step.checked
    /\ sess.phase # "listen_word"

\* C29: in main.py response mode, whenever the agent claims the turn through
\* the RED-without-GREEN recovery path, get_next_word yields a word and the
\* agent speaks it; claiming the turn never ends the conversation.
C29_ClaimedTurnSpeaks ==
    MainPyClaimedTurnOnRed => sess.phase # "exited"

\* No two neighbours of the sequence w are equal.
NoAdjacentRepeat(w) == \A i \in 1..(Len(w) - 1) : w[i] # w[i + 1]

\* C30: the word delivered by main.py's listen_for_word (the ASLRecognizer
\* word buffer) never contains two identical adjacent letters, also when the
\* speaker holds one letter long enough to be confirmed twice in a row.
C30_NoAdjacentRepeatInWord ==
    sess.prog = "main" =>
        /\ NoAdjacentRepeat(sess.recognizer.word_buffer)
        /\ \A i \in 1..Len(sess.received_words) :
               NoAdjacentRepeat(sess.received_words[i])

(***************************************************************************)
(* Claims about listen_for_sentence in one process (SpecSession).          *)
(***************************************************************************)
\* listen_for_sentence has been entered and no pass of its loop has got
\* past the RED check and the key since.
ListenJustEntered ==
    /\ sess.prog = "chat_claude_to_claude"
    /\ sess.phase = "listen"
    /\ sess.event \notin {"detect", "frame"}

\* C31: every text returned by listen_for_sentence, on RED or on silence
\* timeout, is non-empty and has no leading or trailing space, and every new
\* call starts from an empty buffer, a zero no-presence counter, no silence
\* timestamp and a reset accumulator.
C31_TrimmedTextFreshStart ==
    sess.prog = "chat_claude_to_claude" =>
        /\ \A i \in 1..Len(sess.history) :
               sess.history[i][1] = "received" =>
                   LET text == sess.history[i][2] IN
                   /\ text # <<>>
                   /\ text[1] # " " /\ text[Len(text)] # " "
        /\ ListenJustEntered =>
               /\ sess.sentence = <<>>
               /\ sess.no_hand_frames = 0
               /\ sess.last_letter_time = NoTime
               /\ sess.recognizer.word_buffer = <<>>
               /\ sess.recognizer.accumulator.current_letter = None
               /\ sess.recognizer.accumulator.count = 0
               /\ sess.recognizer.accumulator.gap = 0

\* The buffer was "A " when the silence timeout came, and "A" was received.
C31_Witness ==
    /\ sess.prog = "chat_claude_to_claude"
    /\ sess.phase = "got" /\ sess.event = "timeout"
    /\ sess_step.op = "listen"
    /\ sess_step.prev.sentence = <<"A", " ">>
    /\ sess.history[Len(sess.history)] = <<"received", <<"A">>>>

\* A call was cancelled in the middle of a run and the next call started
\* with a reset accumulator.
C31_WitnessFresh ==
    /\ ListenJustEntered
    /\ sess.event = "cancel"
    /\ sess_step.prev.accumulator.count > 0
    /\ sess.recognizer.accumulator.count = 0

\* What the accumulator returned on the frame of the last pass of
\* listen_for_sentence's loop, a pass that ran the classifier.
ListenConfirmed ==
    MP_LetterAccumulator_update(sess_step.prev.accumulator,
                                ScreenAt(senv.screen, snow - 1)[3]).ret

\* The last step was a pass of listen_for_sentence's loop that ran the
\* classifier and went on listening.
ListenDetected ==
    /\ sess.prog = "chat_claude_to_claude"
    /\ sess.phase = "listen"
    /\ sess_step.op = "listen" /\ sess_step.ok
    /\ sess.event = "detect" /\ sess.frame_time = snow - 1

\* C32: every confirmation returned by the accumulator sets the last-symbol
\* timestamp to the time of that pass, also a confirmation that is
\* suppressed as a duplicate and not appended; a pass without confirmation
\* leaves the timestamp as it was.
C32_TimerTracksConfirmation ==
    ListenDetected =>
        sess.last_letter_time =
            IF ListenConfirmed # None THEN snow - 1
            ELSE sess_step.prev.last_letter_time

\* A was confirmed a second time and not appended, and the timestamp moved
\* to that pass.
C32_Witness ==
    /\ ListenDetected
    /\ ListenConfirmed = "A"
    /\ sess_step.prev.sentence = <<"A">> /\ sess.sentence = <<"A">>
    /\ sess_step.prev.last_letter_time < snow - 1
    /\ sess.last_letter_time = snow - 1

(***************************************************************************)
(* Claims about the order of the border colours of a speaker (SpecSession).*)
(***************************************************************************)
\* The phases in which a content unit of the message is on the screen:
\* a letter, a pause, the whole text
ContentPhases ==
    {"letter", "letter_pause", "word_pause", "full_text", "word_shown"}

\* C33: the speaker renders GREEN for every content unit of the message,
\* then RED for the done duration, then CYAN when it starts listening: RED
\* is not rendered before the last content unit has been shown, and between
\* that RED and the next CYAN no other colour is rendered (the display may
\* be closed).
C33_GreenRedCyan ==
    [][ /\ sess'.phase \in ContentPhases => sess'.color = "green"
        /\ (sess.color # "red" /\ sess'.color = "red") =>
               /\ sess.color = "green"
               /\ sess.phase \in {"full_text", "word_shown"}
               /\ sess.pos > Len(sess.text)
               /\ snow - sess.start >= SessDuration(sess)
        /\ sess.color = "red" => sess'.color \in {"red", "cyan", None}
        /\ (sess.color = "red" /\ sess'.color = "cyan") =>
               /\ snow - sess.start >=
                      (IF sess.prog = "main" THEN done_duration ELSE RED_TIME)
               /\ sess'.phase \in {"listen", "wait_green"}
      ]_vars

\* signal_done is over after RED_TIME and the process listens under CYAN.
C33_Witness ==
    /\ sess.prog = "chat_claude_to_claude"
    /\ sess_step.op = "signal_done"
    /\ sess.phase = "listen" /\ sess.color = "cyan"
    /\ sess.history # <<>>

(***************************************************************************)
(* Claims about the file mailbox of chat_live.py (SpecLive).               *)
(***************************************************************************)
\* C34: every response the responder writes is read by the chat process
\* before the chat process deletes it, whenever the responder writes, and
\* each response is displayed at most once.
C34_NoResponseLost ==
    /\ live_log.lost = <<>>
    /\ \A i, j \in 1..Len(live.displayed) :
           live.displayed[i] = live.displayed[j] => i = j

\* Each response is displayed at most once.
C34_DisplayedOnce ==
    \A i, j \in 1..Len(live.displayed) :
        live.displayed[i] = live.displayed[j] => i = j

\* The main loop has read a response and then removed the next one, which
\* the responder wrote over it in between.
C34_LostBetweenReadAndRemove ==
    /\ live.pc = "loop_rest"
    /\ live.response_id = 1
    /\ live_log.read = {1} /\ live_log.lost = <<2>>

(***************************************************************************)
(* Claims about the states a TurnProtocol reaches (SpecTurn).              *)
(***************************************************************************)
\* C35: a TurnProtocol created by its constructor starts in SPEAKING or
\* LISTENING, and under any sequence of update, finish_speaking,
\* start_speaking and start_listening calls and the direct assignment of
\* main.py its state stays within SPEAKING, DONE_SPEAKING and LISTENING:
\* IDLE and WAITING_FOR_TURN are never reached, so the transition of
\* WAITING_FOR_TURN on CYAN never fires.
C35_ThreeStatesOnly ==
    /\ tp_state \in {SPEAKING, DONE_SPEAKING, LISTENING}
    /\ tp_op = "init" => tp_state \in {SPEAKING, LISTENING}
    /\ (tp_op = "update" /\ tp_sig = "cyan") =>
           ~(tp_event = "turn_received" /\ tp_prev # LISTENING)

\* update was called with CYAN on a protocol that had been through
\* DONE_SPEAKING, and nothing happened.
C35_Witness ==
    /\ tp_op = "update" /\ tp_sig = "cyan"
    /\ tp_done_time # NoTime
    /\ tp_state = LISTENING /\ tp_prev = LISTENING
    /\ tp_event = None

(***************************************************************************)
(* Claims about the history of chat_claude_to_claude.py (SpecSession).     *)
(***************************************************************************)
\* C36: the history strictly alternates in direction, and at every request
\* to the responder that is not the opening the last history entry is a
\* received entry, so the received text passed on is never None.
C36_HistoryAlternates ==
    sess.prog = "chat_claude_to_claude" =>
        /\ \A i \in 1..(Len(sess.history) - 1) :
               sess.history[i][1] # sess.history[i + 1][1]
        /\ (sess.phase = "ask" /\ sess.history # <<>>) =>
               sess.history[Len(sess.history)][1] = "received"

\* The process has received A and asks for a response to it.
C36_Witness ==
    /\ sess.prog = "chat_claude_to_claude"
    /\ sess.phase = "ask"
    /\ sess.history = << <<"received", <<"A">> >> >>

\* The process has received and is sending its response.
C36_WitnessReply ==
    /\ sess.prog = "chat_claude_to_claude"
    /\ sess.phase = "letter"
    /\ Len(sess.history) = 2
    /\ sess.history[1][1] = "received" /\ sess.history[2][1] = "sent"

(***************************************************************************)
(* Claims about the RED frame in the listening loops (SpecSession).        *)
(***************************************************************************)
\* The last step was a pass of a listening loop on a frame that was read
\* and whose border decodes as RED.
ListenedToRedFrame ==
    /\ sess_step.op = "listen" /\ sess_step.ok
    /\ sess_step.prev.phase \in {"listen", "listen_word"}
    /\ ScreenAt(senv.screen, snow - 1)[2] = "red"

\* C37: in both listening loops a frame whose border decodes as RED is not
\* passed to the classifier or the accumulator: the message returned on RED
\* is the buffer as it was before that frame, and in listen_for_sentence
\* the accumulator is as it was before that frame.
C37_RedFrameNotClassified ==
    ListenedToRedFrame =>
        IF sess.prog = "main"
        THEN IF sess_step.prev.sentence # <<>>
             THEN /\ sess.phase = "got_sleep"
                  /\ sess.last_received = sess_step.prev.sentence
                  /\ sess.received_words[Len(sess.received_words)]
                        = sess_step.prev.sentence
             ELSE SessHistory(sess) = sess_step.prev.history
        ELSE IF Strip(sess_step.prev.sentence) # <<>>
             THEN /\ sess.phase = "got"
                  /\ sess.history =
                        Append(sess_step.prev.history,
                               <<"received", Strip(sess_step.prev.sentence)>>)
                  /\ sess.recognizer.accumulator = sess_step.prev.accumulator
             ELSE sess.history = sess_step.prev.history

\* listen_for_sentence returned "A" on a RED frame that showed the letter of
\* a run in progress, and the run is where it was.
C37_Witness ==
    /\ ListenedToRedFrame
    /\ sess.prog = "chat_claude_to_claude"
    /\ ScreenAt(senv.screen, snow - 1)[3] = "A"
    /\ sess_step.prev.accumulator.current_letter = "A"
    /\ sess.recognizer.accumulator = sess_step.prev.accumulator
    /\ sess.phase = "got"

\* listen_for_word returned on a RED frame that showed A, which would have
\* been the eighth A of a run.
C37_WitnessMain ==
    /\ ListenedToRedFrame
    /\ sess.prog = "main"
    /\ ScreenAt(senv.screen, snow - 1)[3] = "A"
    /\ sess_step.prev.accumulator.current_letter = "A"
    /\ sess_step.prev.accumulator.count = ACCUMULATION_FRAMES - 1
    /\ sess.last_received = sess_step.prev.sentence

(***************************************************************************)
(* Claims about the two LetterAccumulators side by side (SpecAcc).         *)
(***************************************************************************)
\* The count of the accumulator a is below required_frames, and is 0 exactly
\* when a has no candidate.
CountInRange(a) ==
    /\ a.count < a.required_frames
    /\ a.count >= 0
    /\ (a.count = 0) <=> (a.current_letter = None)

\* C38: for a LetterAccumulator with required_frames >= 1, after every
\* update or reset call the match count is strictly less than
\* required_frames, and the match count is 0 if and only if the current
\* candidate is null.
C38_CountBelowRequired ==
    /\ CountInRange(accumulator)
    /\ CountInRange(mp_accumulator)

\* A run in progress was reset: the count went from 2 to 0 and the candidate
\* is gone.
C38_Witness ==
    /\ acc_op = "reset"
    /\ acc_prev.count = 2 /\ acc_prev.current_letter = "A"
    /\ accumulator.count = 0 /\ accumulator.current_letter = None
    /\ mp_accumulator.count = 0 /\ mp_accumulator.current_letter = None

\* An update brought the count to required_frames - 1.
C38_WitnessUpdate ==
    /\ acc_op = "update"
    /\ accumulator.required_frames = 3
    /\ accumulator.count = 2 /\ mp_accumulator.count = 2

\* C39: the two LetterAccumulator implementations are observationally
\* equivalent: started from the same parameters and fed the same update
\* inputs and reset calls, they return the same value on every update and
\* hold the same candidate, match count and gap counter after every call.
C39_AccumulatorsAgree ==
    /\ acc_out = mp_out
    /\ accumulator.current_letter = mp_accumulator.current_letter
    /\ accumulator.count = mp_accumulator.count
    /\ accumulator.gap = mp_accumulator.gap
    /\ accumulator.required_frames = mp_accumulator.required_frames
    /\ accumulator.max_gap = mp_accumulator.max_gap

\* Both confirmed B on the same update.
C39_Witness ==
    /\ acc_op = "update" /\ acc_in = "B"
    /\ acc_out = "B" /\ mp_out = "B"
    /\ accumulator.required_frames = 3
    /\ acc_prev.count = 2 /\ mp_prev.count = 2

\* Both were reset with a gap counter above 0.
C39_WitnessReset ==
    /\ acc_op = "reset"
    /\ acc_prev.gap > 0 /\ mp_prev.gap > 0
    /\ accumulator.gap = 0 /\ mp_accumulator.gap = 0

(***************************************************************************)
(* Claims about the accumulator at an inserted space (SpecAsm).            *)
(***************************************************************************)
\* The last classifier tick of listen_for_sentence appended a space.
ListenAppendedSpace ==
    /\ asm_prog = "listen_for_sentence"
    /\ asm_op = "detect"
    /\ Len(sentence) = Len(asm_prev) + 1
    /\ sentence[Len(sentence)] = " "

\* C40: in listen_for_sentence, where the accumulator and the space
\* detector get the same classifier output and SPACE_GAP_FRAMES exceeds
\* max_gap, the accumulator has no candidate and a match count of 0 on every
\* tick at which a space is appended.
C40_NoRunAcrossSpace ==
    ListenAppendedSpace =>
        /\ recognizer.accumulator.current_letter = None
        /\ recognizer.accumulator.count = 0
        /\ recognizer.accumulator.gap > recognizer.accumulator.max_gap

\* The signer held its letter on after the confirmation and then took the
\* hand away: the space came SPACE_GAP_FRAMES ticks later and the run of the
\* held letter was gone.
C40_Witness ==
    /\ ListenAppendedSpace
    /\ asm_prev = <<"H">>
    /\ Len(recognizer.word_buffer) = 1
    /\ recognizer.accumulator.gap = SPACE_GAP_FRAMES
    /\ recognizer.accumulator.count = 0

====
